---- MODULE Spec2Model ----
(***************************************************************************)
(* Model of the SMM video tools: the overlay engine                        *)
(* (apply_emotion_overlay.py), the zoom / eyelid-blink transforms          *)
(* (zoom_merge.py) and the per-frame effects pipeline (process_video.py).  *)
(*                                                                         *)
(* Real numbers are carried as exact rationals or as fixed-point integers  *)
(* (thousandths); every conversion to an integer truncates where the code  *)
(* calls int() or astype(np.uint8).  Times are counted in ticks.           *)
(***************************************************************************)
EXTENDS Integers, Sequences, FiniteSets, TLC

VARIABLES call, pf

vars == <<call, pf>>

(***************************************************************************)
(* Bounds of the model.                                                    *)
(***************************************************************************)
MaxSegs == 2
MaxStart == 3
MaxDur == 2
MaxTick == 5
MaxDim == 2
MaxZoomDim == 3
MaxDuration == 3
MaxMaskDim == 4
ProgressSteps == 4
WideWidth == 125
MaxPoints == 2
MaxBlink == 3
MaxFrames == 2
MaxSize == 3

\* Python's None
None == [none |-> TRUE]

\* How a call ends: a returned value or a raised exception.
Return(v) == [kind |-> "return", value |-> v]

Raise(e) == [kind |-> "raise", error |-> e]

(***************************************************************************)
(* Small numeric helpers.                                                  *)
(***************************************************************************)
Min(a, b) == IF a <= b THEN a ELSE b

Max(a, b) == IF a >= b THEN a ELSE b

Abs(a) == IF a < 0 THEN 0 - a ELSE a

\* np.clip(v, lo, hi)
Clip(v, lo, hi) == Max(lo, Min(v, hi))

\* int(x) of the rational n / d, d > 0: truncation toward zero.
Trunc(n, d) == IF n >= 0 THEN n \div d ELSE 0 - ((0 - n) \div d)

RECURSIVE IsqrtFrom(_, _, _)
\* Largest r in lo..hi with r * r <= n (binary search).
IsqrtFrom(n, lo, hi) ==
    IF lo >= hi THEN lo
    ELSE LET mid == (lo + hi + 1) \div 2
         IN  IF mid * mid <= n THEN IsqrtFrom(n, mid, hi)
             ELSE IsqrtFrom(n, lo, mid - 1)

\* floor(sqrt(n)) for 0 <= n < 2^31
Isqrt(n) == IsqrtFrom(n, 0, Min(n, 46340))

(***************************************************************************)
(* Frames: a raster is a sequence of h rows of w pixels, a pixel a         *)
(* sequence of channel samples.  The test rasters are drawn from a few     *)
(* patterns at every size up to MaxDim.                                    *)
(***************************************************************************)
Patterns == {"white", "night", "checker", "ramp"}

PatternPixel(pat, y, x) ==
    CASE pat = "white"   -> <<255, 255, 255>>
      [] pat = "night"   -> <<3, 11, 24>>
      [] pat = "checker" -> IF (x + y) % 2 = 0 THEN <<255, 255, 255>> ELSE <<0, 0, 0>>
      [] OTHER           -> <<(90 * x + 40) % 256, (70 * y + 130) % 256, 250>>

TestFrame(h, w, pat) == [y \in 1..h |-> [x \in 1..w |-> PatternPixel(pat, y - 1, x - 1)]]

Dims == 1..MaxDim

TestFrames == {TestFrame(h, w, pat) : h \in Dims, w \in Dims, pat \in Patterns}

Height(frame) == Len(frame)

Width(frame) == IF Len(frame) = 0 THEN 0 ELSE Len(frame[1])

\* frame.shape == (h, w, 3) with every sample a uint8
IsFrame(f, h, w) ==
    /\ Len(f) = h
    /\ \A y \in 1..h :
         /\ Len(f[y]) = w
         /\ \A x \in 1..w : /\ Len(f[y][x]) = 3
                            /\ \A c \in 1..3 : f[y][x][c] \in 0..255

(***************************************************************************)
(* apply_emotion_overlay.py                                                *)
(***************************************************************************)
\* Strings are sequences of one-character strings.
HexDigits ==
    {"0", "1", "2", "3", "4", "5", "6", "7", "8", "9",
     "a", "b", "c", "d", "e", "f", "A", "B", "C", "D", "E", "F"}

\* int(c, 16) of one digit
HexDigitValue(c) ==
    CASE c = "0" -> 0 [] c = "1" -> 1 [] c = "2" -> 2 [] c = "3" -> 3
      [] c = "4" -> 4 [] c = "5" -> 5 [] c = "6" -> 6 [] c = "7" -> 7
      [] c = "8" -> 8 [] c = "9" -> 9
      [] c \in {"a", "A"} -> 10 [] c \in {"b", "B"} -> 11
      [] c \in {"c", "C"} -> 12 [] c \in {"d", "D"} -> 13
      [] c \in {"e", "E"} -> 14 [] c \in {"f", "F"} -> 15

\* int(value[i:i+2], 16), value 1-indexed at position i
Int16(s, i) == 16 * HexDigitValue(s[i]) + HexDigitValue(s[i + 1])

\* s[a..b] exists and is made of hex digits: [0-9A-Fa-f]{n}
AllHex(s, a, b) == b <= Len(s) /\ \A k \in a..b : s[k] \in HexDigits

\* HEX_RE = #?([0-9A-Fa-f]{8}) tried at position i: where group 1 starts, 0
\* when the pattern does not match there.  The greedy #? is tried first,
\* then the empty alternative.
HexMatchAt(s, i) ==
    IF i <= Len(s) /\ s[i] = "#" /\ AllHex(s, i + 1, i + 8) THEN i + 1
    ELSE IF AllHex(s, i, i + 7) THEN i
    ELSE 0

RECURSIVE HexSearchFrom(_, _)
\* HEX_RE.search: the leftmost position at which the pattern matches.
HexSearchFrom(s, i) ==
    IF i > Len(s) THEN 0
    ELSE IF HexMatchAt(s, i) # 0 THEN HexMatchAt(s, i)
    ELSE HexSearchFrom(s, i + 1)

HexSearch(s) == HexSearchFrom(s, 1)

\* hex_to_rgba reading the digit pairs in the order R, B, G, A
hex_to_rgba_swapped(hex_color) ==
    LET g == HexSearch(hex_color)
    IN  IF g = 0 THEN Raise("ValueError")
        ELSE Return(<<Int16(hex_color, g), Int16(hex_color, g + 4),
                      Int16(hex_color, g + 2), Int16(hex_color, g + 6)>>)

hex_to_rgba(hex_color) ==
    LET g == HexSearch(hex_color)
    IN  IF g = 0 THEN Raise("ValueError")
        ELSE Return(<<Int16(hex_color, g), Int16(hex_color, g + 2),
                      Int16(hex_color, g + 4), Int16(hex_color, g + 6)>>)

\* ColorOverlayConfig
ColorOverlayConfig(id, hex, start, dur, type, inten) ==
    [emotion_id |-> id, hex_color |-> hex, start_time |-> start,
     duration |-> dur, overlay_type |-> type, intensity |-> inten]

RECURSIVE ScanConfigs(_, _, _)
\* the for loop of select_color from index i on, then the fallbacks
ScanConfigs(configs, timestamp, i) ==
    IF i > Len(configs)
    THEN IF Len(configs) > 0 THEN configs[Len(configs)] ELSE None
    ELSE IF /\ configs[i].start_time <= timestamp
            /\ timestamp < configs[i].start_time + configs[i].duration
         THEN configs[i]
         ELSE ScanConfigs(configs, timestamp, i + 1)

RECURSIVE ScanConfigsBack(_, _, _)
\* select_color scanning from the end of the list: the last match wins
ScanConfigsBack(configs, timestamp, i) ==
    IF i < 1
    THEN IF Len(configs) > 0 THEN configs[Len(configs)] ELSE None
    ELSE IF /\ configs[i].start_time <= timestamp
            /\ timestamp < configs[i].start_time + configs[i].duration
         THEN configs[i]
         ELSE ScanConfigsBack(configs, timestamp, i - 1)

select_color_last(configs, timestamp) == ScanConfigsBack(configs, timestamp, Len(configs))

\* select_color without the fallback to the last segment
select_color_no_fallback(configs, timestamp) ==
    LET hits == {i \in 1..Len(configs) :
                   /\ configs[i].start_time <= timestamp
                   /\ timestamp < configs[i].start_time + configs[i].duration}
    IN  IF hits = {} THEN None
        ELSE configs[CHOOSE m \in hits : \A n \in hits : m <= n]

select_color(configs, timestamp) == ScanConfigs(configs, timestamp, 1)

\* The radial mask of create_overlay at pixel (x, y), 0-based, in
\* thousandths: clip(1 - distance / max_dist, 0, 1) ** 1.5 with
\* center = (w/2, h/2); distance / max_dist =
\* sqrt(((2x-w)^2 + (2y-h)^2) / (w^2 + h^2)).
RadialMask(h, w, y, x) ==
    LET d2 == (2 * x - w) * (2 * x - w) + (2 * y - h) * (2 * y - h)
        m2 == w * w + h * h
        ratio == Isqrt((d2 * 1000000) \div m2)
        q == Clip(1000 - ratio, 0, 1000)
    IN  (q * Isqrt(q * 1000)) \div 1000

\* create_overlay: the overlay raster, each sample color[c] * mask in
\* thousandths of the 0..255 scale, and alpha_scale = (rgba[3] / 255) *
\* intensity as the fraction num / 5100 (intensity counted in twentieths).
create_overlay(h, w, rgba, overlay_type, intensity) ==
    [overlay |-> [y \in 1..h |-> [x \in 1..w |-> [c \in 1..3 |->
                    IF overlay_type = "radial"
                    THEN rgba[c] * RadialMask(h, w, y - 1, x - 1)
                    ELSE rgba[c] * 1000]]],
     alpha_num |-> rgba[4] * intensity]

\* apply_overlay with the two blend weights exchanged
apply_overlay_swapped(frame, rgba, overlay_type, intensity) ==
    LET h == Height(frame)
        w == Width(frame)
        co == create_overlay(h, w, rgba, overlay_type, intensity)
        a == co.alpha_num
    IN  [y \in 1..h |-> [x \in 1..w |-> [c \in 1..3 |->
            Clip(Trunc(a * frame[y][x][c] * 1000 + (5100 - a) * co.overlay[y][x][c],
                       5100000), 0, 255)]]]

\* blended = (1 - alpha) * frame / 255 + alpha * overlay, then
\* np.clip(blended * 255, 0, 255).astype(np.uint8)
apply_overlay(frame, rgba, overlay_type, intensity) ==
    LET h == Height(frame)
        w == Width(frame)
        co == create_overlay(h, w, rgba, overlay_type, intensity)
        a == co.alpha_num
    IN  [y \in 1..h |-> [x \in 1..w |-> [c \in 1..3 |->
            Clip(Trunc((5100 - a) * frame[y][x][c] * 1000 + a * co.overlay[y][x][c],
                       5100000), 0, 255)]]]

(***************************************************************************)
(* The calls of the overlay engine.  call holds one call: the function,    *)
(* its arguments drawn from a bounded set, and, once made, its outcome.    *)
(***************************************************************************)
Ticks == 0..MaxTick

DefaultHex == <<"#", "7", "d", "5", "b", "f", "f", "a", "a">>

\* Segments as load_timeline builds them: emotion_id is the list position.
SegmentShapes == (0..MaxStart) \X (0..MaxDur)

Timelines ==
    UNION {{[i \in 1..n |-> ColorOverlayConfig(i - 1, DefaultHex, sh[i][1], sh[i][2],
                                               "tint", 7)] :
              sh \in [1..n -> SegmentShapes]} : n \in 0..MaxSegs}

\* The 8-character bodies the hex inputs are assembled from.
HexBodies ==
    {p[1] \o p[2] \o p[3] \o p[4] : p \in [1..4 -> {<<"7", "d">>, <<"F", "a">>}]}
      \cup {<<"7", "D", "5", "B", "F", "F", "A", "A">>,
            <<"7", "d", "5", "b", "f", "f", "a", "a">>,
            <<"z", "z", "z", "z", "z", "z", "z", "z">>}

HexPrefixes == {<<>>, <<"#">>, <<"z">>, <<"x", "#">>, <<"0">>}

HexSuffixes == {<<>>, <<"z">>, <<"0">>}

\* a body cut to its first k characters, with character j (if any) replaced
\* by a non-hex character, between a prefix and a suffix
HexInputs ==
    {pre \o [i \in 1..k |-> IF i = j THEN "g" ELSE b[i]] \o post :
        pre \in HexPrefixes, post \in HexSuffixes, b \in HexBodies,
        k \in 0..8, j \in {0, 1, 8}}

RGBAs == {<<125, 91, 255, 170>>, <<255, 0, 0, 255>>, <<16, 200, 77, 255>>, <<0, 0, 0, 0>>}

\* intensity in twentieths: 0, 0.35 (the default), 1
Intensities == {0, 7, 20}

OverlayTypes == {"tint", "radial"}

PfIdle == [pc |-> "idle"]

\* A call that has been set up and not made yet has done = FALSE.
Pending(fn, args) ==
    [fn |-> fn, args |-> args, done |-> FALSE, ret |-> None, locals |-> None]

OverlayCalls ==
    {Pending("select_color", [configs |-> configs, timestamp |-> timestamp]) :
        configs \in Timelines, timestamp \in Ticks}
      \cup {Pending("hex_to_rgba", [hex_color |-> hex_color]) : hex_color \in HexInputs}
      \cup {Pending("apply_overlay", [frame |-> frame, rgba |-> rgba,
                                      overlay_type |-> overlay_type,
                                      intensity |-> intensity]) :
              frame \in TestFrames, rgba \in RGBAs, overlay_type \in OverlayTypes,
              intensity \in Intensities}

InitOverlay ==
    /\ call \in OverlayCalls
    /\ pf = PfIdle

SelectColor ==
    /\ call.fn = "select_color" /\ ~call.done
    /\ call' = [call EXCEPT !.done = TRUE,
                            !.ret = select_color(call.args.configs, call.args.timestamp)]
    /\ UNCHANGED pf

HexToRgba ==
    /\ call.fn = "hex_to_rgba" /\ ~call.done
    /\ call' = [call EXCEPT !.done = TRUE, !.ret = hex_to_rgba(call.args.hex_color)]
    /\ UNCHANGED pf

ApplyOverlay ==
    /\ call.fn = "apply_overlay" /\ ~call.done
    /\ call' = [call EXCEPT !.done = TRUE,
                            !.ret = apply_overlay(call.args.frame, call.args.rgba,
                                                  call.args.overlay_type,
                                                  call.args.intensity)]
    /\ UNCHANGED pf

NextOverlay == SelectColor \/ HexToRgba \/ ApplyOverlay

SpecOverlay == InitOverlay /\ [][NextOverlay]_vars

(***************************************************************************)
(* Properties of the overlay engine.                                       *)
(***************************************************************************)
\* timestamp lies in the half-open interval [start_time, start_time + duration)
InSegment(cfg, t) == cfg.start_time <= t /\ t < cfg.start_time + cfg.duration

SetMin(S) == CHOOSE m \in S : \A n \in S : m <= n

\* C1: select_color returns the first segment in list order whose interval
\* [start_time, start_time + duration) contains the timestamp, the last
\* segment of a non-empty list when none contains it, and None for the
\* empty list.
C1_SelectFirstElseLast ==
    (call.fn = "select_color" /\ call.done) =>
        LET cs == call.args.configs
            hits == {i \in 1..Len(cs) : InSegment(cs[i], call.args.timestamp)}
        IN  IF hits # {} THEN call.ret = cs[SetMin(hits)]
            ELSE IF Len(cs) > 0 THEN call.ret = cs[Len(cs)]
            ELSE call.ret = None

\* Two different overlapping segments both contain the timestamp and the
\* earlier one was returned.
C1_Witness ==
    /\ call.fn = "select_color" /\ call.done
    /\ Len(call.args.configs) = 2
    /\ InSegment(call.args.configs[1], call.args.timestamp)
    /\ InSegment(call.args.configs[2], call.args.timestamp)
    /\ call.args.configs[1].start_time # call.args.configs[2].start_time
    /\ call.ret = call.args.configs[1]

\* C6: apply_overlay with intensity 0 returns the frame unchanged, whatever
\* the color and the shape; with intensity 1, alpha 255 and shape tint every
\* pixel of the result is the RGB of the color.
C6_OverlayEndpoints ==
    (call.fn = "apply_overlay" /\ call.done) =>
        /\ call.args.intensity = 0 => call.ret = call.args.frame
        /\ (/\ call.args.intensity = 20
            /\ call.args.rgba[4] = 255
            /\ call.args.overlay_type = "tint") =>
               \A y \in 1..Height(call.ret) : \A x \in 1..Width(call.ret) :
                  call.ret[y][x] = SubSeq(call.args.rgba, 1, 3)

\* A full-strength opaque tint replaced a frame of another colour.
C6_Witness ==
    /\ call.fn = "apply_overlay" /\ call.done
    /\ call.args.intensity = 20 /\ call.args.rgba[4] = 255
    /\ call.args.overlay_type = "tint"
    /\ Height(call.args.frame) = 2 /\ Width(call.args.frame) = 2
    /\ call.args.frame[1][2] # call.args.frame[1][1]
    /\ \A y \in 1..2 : \A x \in 1..2 :
          /\ call.ret[y][x] = SubSeq(call.args.rgba, 1, 3)
          /\ call.ret[y][x] # call.args.frame[y][x]

ToLower(c) ==
    CASE c = "A" -> "a" [] c = "B" -> "b" [] c = "C" -> "c"
      [] c = "D" -> "d" [] c = "E" -> "e" [] c = "F" -> "f" [] OTHER -> c

ToUpper(c) ==
    CASE c = "a" -> "A" [] c = "b" -> "B" [] c = "c" -> "C"
      [] c = "d" -> "D" [] c = "e" -> "E" [] c = "f" -> "F" [] OTHER -> c

Lower(s) == [i \in 1..Len(s) |-> ToLower(s[i])]

Upper(s) == [i \in 1..Len(s) |-> ToUpper(s[i])]

\* the value of a hex digit: its place in 0123456789abcdef, case ignored
Nibble(c) ==
    LET digits == <<"0", "1", "2", "3", "4", "5", "6", "7",
                    "8", "9", "a", "b", "c", "d", "e", "f">>
    IN  (CHOOSE i \in 1..16 : digits[i] = ToLower(c)) - 1

\* the byte values of the four digit pairs of d, in order
PairBytes(d) == [i \in 1..4 |-> 16 * Nibble(d[2 * i - 1]) + Nibble(d[2 * i])]

\* exactly 8 hex digits
IsHex8(d) == Len(d) = 8 /\ \A i \in 1..8 : d[i] \in HexDigits

\* an optional # followed by exactly 8 hex digits
WellFormedHex(s) == IsHex8(s) \/ (Len(s) = 9 /\ s[1] = "#" /\ IsHex8(Tail(s)))

\* the 8 digits of a well-formed input
DigitsOf(s) == IF Len(s) = 9 THEN Tail(s) ELSE s

\* C7: for 8 hex digits, with or without a leading # and in either case,
\* hex_to_rgba returns the byte values of the digit pairs in the order
\* R, G, B, A, the same for all four spellings.
C7_HexParse ==
    (call.fn = "hex_to_rgba" /\ call.done /\ WellFormedHex(call.args.hex_color)) =>
        LET d == DigitsOf(call.args.hex_color)
        IN  /\ call.ret = Return(PairBytes(d))
            /\ hex_to_rgba(d) = call.ret
            /\ hex_to_rgba(<<"#">> \o d) = call.ret
            /\ hex_to_rgba(Upper(d)) = call.ret
            /\ hex_to_rgba(<<"#">> \o Lower(d)) = call.ret

\* "#7D5BFFAA" was parsed to (0x7d, 0x5b, 0xff, 0xaa).
C7_Witness ==
    /\ call.fn = "hex_to_rgba" /\ call.done
    /\ call.args.hex_color = <<"#", "7", "D", "5", "B", "F", "F", "A", "A">>
    /\ call.ret = Return(<<125, 91, 255, 170>>)

\* C8: every input that is not an optional # followed by exactly 8 hex
\* digits is rejected: hex_to_rgba raises and returns no RGBA value.
C8_RejectsMalformed ==
    (call.fn = "hex_to_rgba" /\ call.done /\ ~WellFormedHex(call.args.hex_color)) =>
        call.ret.kind = "raise"

(***************************************************************************)
(* zoom_merge.py: zoom_effect                                              *)
(*                                                                         *)
(* Times of a clip of duration D are counted in half-units: t2 = 2 * t     *)
(* ranges over 0..2*D, so that t = duration / 2 is t2 = D.  Zoom factors   *)
(* are thousandths.  A scale is the exact fraction num / den.              *)
(***************************************************************************)
\* progress * progress * (3 - 2 * progress) for progress = p / D, as the
\* numerator over D^3
Smoothstep(p, D) == p * p * (3 * D - 2 * p)

\* the branch t < duration / 2: scale = 1.0 + (zoom_in - 1.0) * progress
ZoomInBranch(t2, D, zoom_in) ==
    [num |-> 1000 * D * D * D + (zoom_in - 1000) * Smoothstep(t2, D),
     den |-> 1000 * D * D * D]

\* the zoom-out branch with progress measured against the whole duration
ZoomOutBranchWhole(t2, D, zoom_in, zoom_out) ==
    [num |-> 8 * zoom_in * D * D * D
               - (zoom_in - zoom_out) * (t2 - D) * (t2 - D) * (6 * D - 2 * (t2 - D)),
     den |-> 8000 * D * D * D]

\* the else branch: scale = zoom_in - (zoom_in - zoom_out) * progress
ZoomOutBranch(t2, D, zoom_in, zoom_out) ==
    [num |-> zoom_in * D * D * D - (zoom_in - zoom_out) * Smoothstep(t2 - D, D),
     den |-> 1000 * D * D * D]

ZoomScale(t2, D, zoom_in, zoom_out) ==
    IF t2 < D THEN ZoomInBranch(t2, D, zoom_in)
    ELSE ZoomOutBranch(t2, D, zoom_in, zoom_out)

\* cv2.resize(frame, (new_w, new_h)): a raster of new_h rows of new_w
\* pixels, each sampled from the source pixel it falls on.
Resize(frame, new_w, new_h) ==
    [y \in 1..new_h |-> [x \in 1..new_w |->
        frame[((y - 1) * Height(frame)) \div new_h + 1]
             [((x - 1) * Width(frame)) \div new_w + 1]]]

\* seq[a:b] of Python for 0 <= a
PySlice(seq, a, b) == SubSeq(seq, a + 1, Min(b, Len(seq)))

Black == <<0, 0, 0>>

\* cv2.copyMakeBorder(src, top, bottom, left, right, BORDER_CONSTANT, [0,0,0])
CopyMakeBorder(src, top, bottom, left, right) ==
    LET row(r) == [x \in 1..left |-> Black] \o r \o [x \in 1..right |-> Black]
        blank == [x \in 1..(left + Width(src) + right) |-> Black]
    IN  [y \in 1..top |-> blank]
          \o [y \in 1..Height(src) |-> row(src[y])]
          \o [y \in 1..bottom |-> blank]

\* transform_frame padding the bottom and the right by pad_y and pad_x again
ZoomPadSymmetric(zoomed, h, w) ==
    LET pad_y == (h - Height(zoomed)) \div 2
        pad_x == (w - Width(zoomed)) \div 2
    IN  CopyMakeBorder(zoomed, pad_y, pad_y, pad_x, pad_x)

\* the else branch of transform_frame: black borders around the shrunk frame
ZoomPad(zoomed, h, w) ==
    LET pad_y == (h - Height(zoomed)) \div 2
        pad_x == (w - Width(zoomed)) \div 2
    IN  CopyMakeBorder(zoomed, pad_y, h - Height(zoomed) - pad_y,
                       pad_x, w - Width(zoomed) - pad_x)

\* the branch scale > 1.0 of transform_frame: the centre crop
ZoomCrop(zoomed, h, w) ==
    LET y1 == (Height(zoomed) - h) \div 2
        x1 == (Width(zoomed) - w) \div 2
        rows == PySlice(zoomed, y1, y1 + h)
    IN  [y \in 1..Len(rows) |-> PySlice(rows[y], x1, x1 + w)]

\* zoom_effect.transform_frame for a clip of size (w, h) and duration D:
\* the locals it computes and how it ends.  cv2.resize fails on an empty
\* target size.
transform_frame(frame, t2, D, zoom_in, zoom_out, w, h) ==
    LET scale == ZoomScale(t2, D, zoom_in, zoom_out)
        new_w == Trunc(w * scale.num, scale.den)
        new_h == Trunc(h * scale.num, scale.den)
        zoomed == Resize(frame, new_w, new_h)
    IN  IF D = 0
        THEN \* (t - duration / 2) / (duration / 2) divides by zero
             [locals |-> None, ret |-> Raise("ZeroDivisionError")]
        ELSE [locals |-> [scale |-> scale, new_w |-> new_w, new_h |-> new_h],
              ret |-> IF new_w < 1 \/ new_h < 1 THEN Raise("cv2.error")
                      ELSE IF scale.num > scale.den THEN Return(ZoomCrop(zoomed, h, w))
                      ELSE Return(ZoomPad(zoomed, h, w))]

(***************************************************************************)
(* zoom_merge.py: create_eye_mask                                          *)
(*                                                                         *)
(* progress is the fraction pn / pd; the field is held in thousandths.     *)
(***************************************************************************)
\* the gap growing with progress on the opening branch
EyeGapGrowing(h, pn, pd, closing) ==
    IF closing THEN Trunc(600 * h * (pd - pn), pd)
    ELSE Trunc(600 * h * pn, pd)

\* max_gap = h * 0.6 and gap = max_gap * (1 - progress), on both branches
EyeGap(h, pn, pd, closing) ==
    IF closing THEN Trunc(600 * h * (pd - pn), pd)
    ELSE Trunc(600 * h * (pd - pn), pd)

\* visibility at row y, column x (0-based)
EyeVisibility(h, w, pn, pd, closing, y, x) ==
    LET center_y == h \div 2
        center_x == w \div 2
        gap == EyeGap(h, pn, pd, closing)
        dist_y == Abs(y - center_y)
        dist_x == Abs(x - center_x)
        \* (dist_x / rx) ** 2 with rx = w * 0.5, clipped to [0, 1], over w^2
        sq == Clip(4 * dist_x * dist_x, 0, w * w)
        ellipse_factor == Isqrt(((w * w - sq) * 1000000) \div (w * w))
        effective_gap == (gap * (300 + (700 * ellipse_factor) \div 1000)) \div 1000
        over == Max(0, 1000 * dist_y - effective_gap)
        visibility == Clip(1000 - (over * 1000) \div (effective_gap \div 2 + 1000),
                           0, 1000)
    IN  (visibility * visibility * (3000 - 2 * visibility)) \div 1000000

create_eye_mask(h, w, pn, pd, closing) ==
    [y \in 1..h |-> [x \in 1..w |-> EyeVisibility(h, w, pn, pd, closing, y - 1, x - 1)]]

(***************************************************************************)
(* The calls of the zoom and blink transforms.                             *)
(***************************************************************************)
ZoomFactors == {500, 1000, 1300, 1500}

ZoomCalls ==
    {Pending("transform_frame",
             [frame |-> TestFrame(h, w, "ramp"), t2 |-> t2, duration |-> D,
              zoom_in |-> zoom_in, zoom_out |-> zoom_out, w |-> w, h |-> h]) :
        h \in 1..MaxZoomDim, w \in 1..MaxZoomDim,
        D \in 1..MaxDuration, t2 \in 0..(2 * MaxDuration),
        zoom_in \in ZoomFactors, zoom_out \in ZoomFactors}

MaskCalls ==
    {Pending("create_eye_mask",
             [h |-> h, w |-> w, pn |-> pn, pd |-> ProgressSteps, closing |-> closing]) :
        h \in 1..MaxMaskDim, w \in 1..MaxMaskDim, pn \in 0..ProgressSteps,
        closing \in BOOLEAN}

InitZoom ==
    /\ call \in {c \in ZoomCalls : c.args.t2 <= 2 * c.args.duration} \cup MaskCalls
    /\ pf = PfIdle

TransformFrame ==
    /\ call.fn = "transform_frame" /\ ~call.done
    /\ LET r == transform_frame(call.args.frame, call.args.t2, call.args.duration,
                                call.args.zoom_in, call.args.zoom_out,
                                call.args.w, call.args.h)
       IN  call' = [call EXCEPT !.done = TRUE, !.ret = r.ret, !.locals = r.locals]
    /\ UNCHANGED pf

CreateEyeMask ==
    /\ call.fn = "create_eye_mask" /\ ~call.done
    /\ call' = [call EXCEPT !.done = TRUE,
                            !.ret = create_eye_mask(call.args.h, call.args.w,
                                                    call.args.pn, call.args.pd,
                                                    call.args.closing)]
    /\ UNCHANGED pf

NextZoom == TransformFrame \/ CreateEyeMask

SpecZoom == InitZoom /\ [][NextZoom]_vars

(***************************************************************************)
(* Properties of the zoom transform and of the eyelid mask.                *)
(***************************************************************************)
\* C4: the frame transform_frame returns for a clip of size (w, h) has
\* height h and width w at every t in [0, D]: cropped from the centre when
\* scale > 1, padded with black when scale <= 1, the paddings and the
\* resized size adding up to the clip size.  A frame is returned whenever
\* the resized size int(w * scale) x int(h * scale) is not empty.
C4_ZoomKeepsSize ==
    (call.fn = "transform_frame" /\ call.done) =>
        LET h == call.args.h
            w == call.args.w
            new_w == call.locals.new_w
            new_h == call.locals.new_h
            bigger == call.locals.scale.num > call.locals.scale.den
        IN  /\ (new_w >= 1 /\ new_h >= 1) => call.ret.kind = "return"
            /\ call.ret.kind = "return" =>
                 /\ IsFrame(call.ret.value, h, w)
                 /\ bigger => new_w >= w /\ new_h >= h
                 /\ ~bigger =>
                      LET top == (h - new_h) \div 2
                          left == (w - new_w) \div 2
                      IN  /\ new_w <= w /\ new_h <= h
                          /\ \A y \in 1..h : \A x \in 1..w :
                               (y \in (top + 1)..(top + new_h)
                                  /\ x \in (left + 1)..(left + new_w))
                                 \/ call.ret.value[y][x] = Black

\* A frame shrunk by an odd number of rows and columns was padded back.
C4_Witness ==
    /\ call.fn = "transform_frame" /\ call.done
    /\ call.ret.kind = "return"
    /\ call.locals.scale.num < call.locals.scale.den
    /\ (call.args.h - call.locals.new_h) % 2 = 1
    /\ (call.args.w - call.locals.new_w) % 2 = 1
    /\ IsFrame(call.ret.value, call.args.h, call.args.w)

\* a / b = c / d for positive denominators
SameFraction(a, b, c, d) == IF b = d THEN a = c ELSE a * d = c * b

\* C5: the zoom curve has scale(0) = 1.0, scale(D/2) = zoom_in and
\* scale(D) = zoom_out, and its two branches agree at t = D/2.
C5_ZoomCurve ==
    (call.fn = "transform_frame" /\ call.done) =>
        LET D == call.args.duration
            zi == call.args.zoom_in
            zo == call.args.zoom_out
            scale == call.locals.scale
            first == ZoomInBranch(D, D, zi)
            second == ZoomOutBranch(D, D, zi, zo)
        IN  /\ call.args.t2 = 0 => SameFraction(scale.num, scale.den, 1, 1)
            /\ call.args.t2 = D => SameFraction(scale.num, scale.den, zi, 1000)
            /\ call.args.t2 = 2 * D => SameFraction(scale.num, scale.den, zo, 1000)
            /\ SameFraction(first.num, first.den, second.num, second.den)
            /\ SameFraction(first.num, first.den, zi, 1000)

\* The end of a clip of odd duration whose zoom-out factor differs from 1
\* and from the zoom-in factor.
C5_Witness ==
    /\ call.fn = "transform_frame" /\ call.done
    /\ call.args.duration = 3 /\ call.args.t2 = 6
    /\ call.args.zoom_in = 1300 /\ call.args.zoom_out = 500
    /\ SameFraction(call.locals.scale.num, call.locals.scale.den, 1, 2)

\* C9: the eye mask is mirror-symmetric top/bottom and left/right, for
\* every h, w >= 1 and every progress in [0, 1].
C9_MaskSymmetric ==
    (call.fn = "create_eye_mask" /\ call.done) =>
        \A y \in 1..call.args.h : \A x \in 1..call.args.w :
            /\ call.ret[y][x] = call.ret[call.args.h + 1 - y][x]
            /\ call.ret[y][x] = call.ret[y][call.args.w + 1 - x]

SinQuarter(x) ==
    LET x2 == (x * x) \div 1000
        x3 == (x2 * x) \div 1000
        x5 == (((x3 * x) \div 1000) * x) \div 1000
        x7 == (((x5 * x) \div 1000) * x) \div 1000
    IN  Clip(x - x3 \div 6 + x5 \div 120 - x7 \div 5040, 0, 1000)

\* np.sin of a milliradians, a >= 0, in thousandths
SinMilli(a) ==
    LET r == a % 6283
        s == IF r >= 3142 THEN r - 3142 ELSE r
        q == IF s > 1571 THEN 3142 - s ELSE s
    IN  IF r >= 3142 THEN 0 - SinQuarter(q) ELSE SinQuarter(q)

\* np.cos
CosMilli(a) == SinMilli(a + 1571)

\* NEURO_PALETTE
NEURO_PALETTE ==
    [deep_night |-> <<3, 11, 24>>, violet |-> <<125, 91, 255>>,
     azure |-> <<79, 209, 197>>, purple |-> <<139, 92, 246>>,
     dark_blue |-> <<30, 58, 138>>]

\* the sample of channel c at (y, x), 1-based, the indices clamped to the
\* raster (the border of a filter)
Sample(frame, y, x, c) ==
    frame[Clip(y, 1, Height(frame))][Clip(x, 1, Width(frame))][c]

\* cv2.GaussianBlur(frame, (0, 0), sigma): every sample becomes a rounded
\* weighted mean of the samples of its channel around it; the weights are
\* taken uniform over the 3 x 3 neighbourhood.
GaussianBlur(frame) ==
    [y \in 1..Height(frame) |-> [x \in 1..Width(frame) |-> [c \in DOMAIN frame[y][x] |->
        (Sample(frame, y - 1, x - 1, c) + Sample(frame, y - 1, x, c)
           + Sample(frame, y - 1, x + 1, c) + Sample(frame, y, x - 1, c)
           + Sample(frame, y, x, c) + Sample(frame, y, x + 1, c)
           + Sample(frame, y + 1, x - 1, c) + Sample(frame, y + 1, x, c)
           + Sample(frame, y + 1, x + 1, c) + 4) \div 9]]]

\* cv2.addWeighted(a, alpha, b, beta, 0) on uint8 rasters, the weights
\* alpha_n / den and beta_n / den: rounded and saturated to 0..255
AddWeighted(a, alpha_n, b, beta_n, den) ==
    [y \in 1..Height(a) |-> [x \in 1..Width(a) |-> [c \in DOMAIN a[y][x] |->
        Clip((2 * (a[y][x][c] * alpha_n + b[y][x][c] * beta_n) + den) \div (2 * den),
             0, 255)]]]

\* glow_filter, intensity in hundredths
glow_filter(frame, intensity) ==
    LET blurred == GaussianBlur(frame)
        glow == AddWeighted(frame, 100, blurred, intensity, 100)
    IN  [y \in 1..Height(frame) |-> [x \in 1..Width(frame) |-> [c \in DOMAIN frame[y][x] |->
            Clip(glow[y][x][c], 0, 255)]]]

\* cv2.cvtColor(frame, cv2.COLOR_RGB2GRAY) at (y, x), indices clamped
Gray(frame, y, x) ==
    (299 * Sample(frame, y, x, 1) + 587 * Sample(frame, y, x, 2)
       + 114 * Sample(frame, y, x, 3) + 500) \div 1000

\* cv2.Canny(gray, 50, 150): an edge map of samples 0 or 255; a pixel is an
\* edge when its gradient magnitude exceeds the upper threshold.
Canny(frame) ==
    [y \in 1..Height(frame) |-> [x \in 1..Width(frame) |->
        IF Abs(Gray(frame, y, x + 1) - Gray(frame, y, x - 1))
             + Abs(Gray(frame, y + 1, x) - Gray(frame, y - 1, x)) > 150
        THEN 255 ELSE 0]]

\* edge_enhancement, strength in hundredths
edge_enhancement(frame, strength) ==
    LET edges == Canny(frame)
        edges_colored == [y \in 1..Height(frame) |-> [x \in 1..Width(frame) |->
                             <<edges[y][x], edges[y][x], edges[y][x]>>]]
        enhanced == AddWeighted(frame, 100 - strength, edges_colored, strength, 100)
    IN  [y \in 1..Height(frame) |-> [x \in 1..Width(frame) |-> [c \in 1..3 |->
            Clip(enhanced[y][x][c], 0, 255)]]]

\* color_shift at tick t: pulse = 0.5 + 0.3 * sin(t * 0.5); the gradient
\* np.linspace(0, 1, w) is x / (w - 1), and [0] for w = 1.  The loop blends
\* channels 0..2; any further channel is copied.
color_shift(frame, t) ==
    LET w == Width(frame)
        w1 == Max(1, w - 1)
        pulse == 500 + (300 * SinMilli(250 * t)) \div 1000
        k == 4 * pulse
    IN  [y \in 1..Height(frame) |-> [x \in 1..w |-> [c \in DOMAIN frame[y][x] |->
            IF c > 3 THEN frame[y][x][c]
            ELSE
            LET night_val == NEURO_PALETTE.deep_night[c]
                violet_val == NEURO_PALETTE.violet[c]
                channel_gradient == night_val * w1 + (violet_val - night_val) * (x - 1)
            IN  Clip(Trunc(frame[y][x][c] * (10000 - k) * w1 + channel_gradient * k,
                           10000 * w1), 0, 255)]]]

\* the eased breath of breath_rhythm in thousandths, period in seconds:
\* sin((phase + pi/2) / 2) * 0.6 + 0.5 with phase = 2 * pi * t / period
Breath(t, period) ==
    (600 * SinMilli((3142 * t) \div (2 * period) + 785)) \div 1000 + 500

\* breath_rhythm without the final clip
breath_rhythm_unclipped(frame, t, period) ==
    LET breath == Breath(t, period)
        blur_amount == Trunc(2 * breath, 1000)
        result == IF blur_amount > 0
                  THEN AddWeighted(frame, 10000 - 3 * breath, GaussianBlur(frame),
                                   3 * breath, 10000)
                  ELSE frame
    IN  [y \in 1..Height(frame) |-> [x \in 1..Width(frame) |-> [c \in DOMAIN frame[y][x] |->
            Trunc(result[y][x][c] * (10000 + breath), 10000)]]]

breath_rhythm(frame, t, period) ==
    LET breath == Breath(t, period)
        blur_amount == Trunc(2 * breath, 1000)
        result == IF blur_amount > 0
                  THEN AddWeighted(frame, 10000 - 3 * breath, GaussianBlur(frame),
                                   3 * breath, 10000)
                  ELSE frame
    IN  [y \in 1..Height(frame) |-> [x \in 1..Width(frame) |-> [c \in DOMAIN frame[y][x] |->
            Clip(Trunc(result[y][x][c] * (10000 + breath), 10000), 0, 255)]]]

\* a loop of photonic_noise that draws a point whatever the density
NumPointsAtLeastOne(h, w, density) == Max(1, Trunc(h * w * density, 1000))

\* a point count rounded up instead of truncated
NumPointsCeil(h, w, density) == (h * w * density + 999) \div 1000

\* num_points = int(h * w * density), density in thousandths
NumPoints(h, w, density) == Trunc(h * w * density, 1000)

\* a target computed with a remainder that takes the sign of the dividend
NoiseTargetRem(h, w, t, x, y) ==
    LET offset_x == Trunc(5 * SinMilli(1000 * t + 10 * y), 1000)
        offset_y == Trunc(5 * CosMilli(1000 * t + 10 * x), 1000)
    IN  [offset_x |-> offset_x, offset_y |-> offset_y,
         px |-> IF x + offset_x >= 0 THEN (x + offset_x) % w
                ELSE 0 - ((0 - (x + offset_x)) % w),
         py |-> IF y + offset_y >= 0 THEN (y + offset_y) % h
                ELSE 0 - ((0 - (y + offset_y)) % h)]

\* the offsets and the target (px, py) of the drawn point (x, y): Python's
\* % takes the sign of the divisor
NoiseTarget(h, w, t, x, y) ==
    LET offset_x == Trunc(5 * SinMilli(1000 * t + 10 * y), 1000)
        offset_y == Trunc(5 * CosMilli(1000 * t + 10 * x), 1000)
    IN  [offset_x |-> offset_x, offset_y |-> offset_y,
         px |-> (x + offset_x) % w, py |-> (y + offset_y) % h]

\* one iteration of the loop of photonic_noise for the drawn point (x, y),
\* 0-based, on the float raster held in tenths
NoisePoint(result, t, x, y) ==
    LET h == Height(result)
        w == Width(result)
        target == NoiseTarget(h, w, t, x, y)
        px == target.px
        py == target.py
    IN  IF 0 <= px /\ px < w /\ 0 <= py /\ py < h
        THEN [result EXCEPT ![py + 1][px + 1] =
                 [c \in 1..3 |-> Min(@[c] + 3 * NEURO_PALETTE.azure[c], 2550)]]
        ELSE result

RECURSIVE NoiseLoop(_, _, _, _)
\* the loop of photonic_noise over the points drawn, from the i-th on
NoiseLoop(result, t, pts, i) ==
    IF i > Len(pts) THEN result
    ELSE NoiseLoop(NoisePoint(result, t, pts[i][1], pts[i][2]), t, pts, i + 1)

\* photonic_noise; pts are the positions (x, y) the num_points calls of
\* np.random.uniform draw
photonic_noise(frame, t, pts) ==
    LET start == [y \in 1..Height(frame) |-> [x \in 1..Width(frame) |->
                     [c \in DOMAIN frame[y][x] |-> 10 * frame[y][x][c]]]]
        result == NoiseLoop(start, t, pts, 1)
    IN  [y \in 1..Height(frame) |-> [x \in 1..Width(frame) |-> [c \in DOMAIN frame[y][x] |->
            Clip(Trunc(result[y][x][c], 10), 0, 255)]]]

\* the draws np.random.uniform can produce for num_points points
PointDraws(h, w, n) == [1..n -> (0..(w - 1)) \X (0..(h - 1))]

\* the stages of process_frame in the order of its statements
ProcessFrameSwapped ==
    <<"color_shift", "glow_filter", "edge_enhancement", "breath_rhythm", "photonic_noise">>

ProcessFrameStages ==
    <<"color_shift", "edge_enhancement", "glow_filter", "breath_rhythm", "photonic_noise">>

\* the statement of process_frame that follows the one calling stage
StageAfter(stage) ==
    LET i == CHOOSE k \in 1..Len(ProcessFrameStages) : ProcessFrameStages[k] = stage
    IN  IF i < Len(ProcessFrameStages) THEN ProcessFrameStages[i + 1] ELSE "return"

\* the call process_frame makes of a stage: strength = 0.15, intensity =
\* 0.25, period = 6.0, density = 0.008
StageOutput(stage, frame, t, pts) ==
    CASE stage = "color_shift"      -> color_shift(frame, t)
      [] stage = "edge_enhancement" -> edge_enhancement(frame, 15)
      [] stage = "glow_filter"      -> glow_filter(frame, 25)
      [] stage = "breath_rhythm"    -> breath_rhythm(frame, t, 6)
      [] stage = "photonic_noise"   -> photonic_noise(frame, t, pts)

(***************************************************************************)
(* The outcome of a stage called on any raster, well-formed or not.  The   *)
(* stages check nothing themselves: an error is whatever numpy or cv2      *)
(* raises on the way.  An empty raster has shape (0, 0, 3).                *)
(***************************************************************************)
IsEmptyFrame(frame) == Height(frame) = 0 \/ Width(frame) = 0

\* frame.shape[2]
Channels(frame) == IF IsEmptyFrame(frame) THEN 3 ELSE Len(frame[1][1])

\* cv2.GaussianBlur rejects an empty source; blur and addWeighted take any
\* channel count
GlowFilterCall(frame, intensity) ==
    IF IsEmptyFrame(frame) THEN Raise("cv2.error")
    ELSE Return(glow_filter(frame, intensity))

\* cv2.cvtColor rejects an empty source and a source of fewer than three
\* channels; with four channels cv2.addWeighted rejects the three-channel
\* edge raster
EdgeEnhancementCall(frame, strength) ==
    IF IsEmptyFrame(frame) \/ Channels(frame) # 3 THEN Raise("cv2.error")
    ELSE Return(edge_enhancement(frame, strength))

\* result[:, :, i] for i in range(3) is out of bounds below three channels
ColorShiftCall(frame, t) ==
    IF ~IsEmptyFrame(frame) /\ Channels(frame) < 3 THEN Raise("IndexError")
    ELSE Return(color_shift(frame, t))

\* cv2.GaussianBlur is reached only when blur_amount > 0
BreathRhythmCall(frame, t, period) ==
    IF IsEmptyFrame(frame) /\ Trunc(2 * Breath(t, period), 1000) > 0
    THEN Raise("cv2.error")
    ELSE Return(breath_rhythm(frame, t, period))

\* result[py, px, :] + azure cannot be broadcast unless there are three
\* channels; with no point drawn the frame is only copied
PhotonicNoiseCall(frame, t, pts) ==
    IF Len(pts) > 0 /\ Channels(frame) # 3 THEN Raise("ValueError")
    ELSE Return(photonic_noise(frame, t, pts))

(***************************************************************************)
(* The calls of the effects pipeline.  A stage is called on its own, or    *)
(* process_frame runs statement by statement: pf holds the statement it is *)
(* at, the frame variable, and the stage calls made so far.                *)
(***************************************************************************)
WideFrames == {TestFrame(1, WideWidth, pat) : pat \in {"white", "ramp"}}

StageCalls ==
    {Pending("color_shift", [frame |-> frame, t |-> t]) :
        frame \in TestFrames, t \in Ticks}
      \cup {Pending("edge_enhancement", [frame |-> frame, strength |-> strength]) :
              frame \in TestFrames, strength \in {15, 20}}
      \cup {Pending("glow_filter", [frame |-> frame, intensity |-> intensity]) :
              frame \in TestFrames, intensity \in {25, 30}}
      \cup {Pending("breath_rhythm", [frame |-> frame, t |-> t, period |-> period]) :
              frame \in TestFrames, t \in Ticks, period \in {1, 2, 6}}
      \cup {c \in {Pending("photonic_noise",
                           [frame |-> frame, t |-> t, density |-> density]) :
                     frame \in TestFrames, t \in Ticks,
                     density \in {0, 8, 10, 500, 1000}} :
              NumPoints(Height(c.args.frame), Width(c.args.frame), c.args.density)
                <= MaxPoints}
      \cup {Pending("process_frame", [frame |-> frame, t |-> t]) :
              frame \in TestFrames \cup WideFrames, t \in Ticks}

InitPipeline ==
    /\ call \in StageCalls
    /\ pf = PfIdle

ColorShift ==
    /\ call.fn = "color_shift" /\ ~call.done
    /\ call' = [call EXCEPT !.done = TRUE,
                            !.ret = ColorShiftCall(call.args.frame, call.args.t)]
    /\ UNCHANGED pf

EdgeEnhancement ==
    /\ call.fn = "edge_enhancement" /\ ~call.done
    /\ call' = [call EXCEPT !.done = TRUE,
                            !.ret = EdgeEnhancementCall(call.args.frame,
                                                        call.args.strength)]
    /\ UNCHANGED pf

GlowFilter ==
    /\ call.fn = "glow_filter" /\ ~call.done
    /\ call' = [call EXCEPT !.done = TRUE,
                            !.ret = GlowFilterCall(call.args.frame,
                                                   call.args.intensity)]
    /\ UNCHANGED pf

BreathRhythm ==
    /\ call.fn = "breath_rhythm" /\ ~call.done
    /\ call' = [call EXCEPT !.done = TRUE,
                            !.ret = BreathRhythmCall(call.args.frame, call.args.t,
                                                     call.args.period)]
    /\ UNCHANGED pf

PhotonicNoise ==
    /\ call.fn = "photonic_noise" /\ ~call.done
    /\ LET h == Height(call.args.frame)
           w == Width(call.args.frame)
           num_points == NumPoints(h, w, call.args.density)
       IN  \E pts \in PointDraws(h, w, num_points) :
              call' = [call EXCEPT !.done = TRUE,
                                   !.ret = PhotonicNoiseCall(call.args.frame,
                                                             call.args.t, pts),
                                   !.locals = [num_points |-> num_points, pts |-> pts]]
    /\ UNCHANGED pf

\* process_frame is entered: frame and t are its parameters
PfEnter ==
    /\ call.fn = "process_frame" /\ ~call.done
    /\ pf.pc = "idle"
    /\ pf' = [pc |-> ProcessFrameStages[1], frame |-> call.args.frame,
              t |-> call.args.t, calls |-> <<>>]
    /\ UNCHANGED call

\* the statement frame = stage(frame, ...) of process_frame
PfStage(stage) ==
    /\ pf.pc = stage
    /\ LET h == Height(pf.frame)
           w == Width(pf.frame)
           n == IF stage = "photonic_noise" THEN NumPoints(h, w, 8) ELSE 0
       IN  \E pts \in PointDraws(h, w, n) :
              LET out == StageOutput(stage, pf.frame, pf.t, pts)
              IN  pf' = [pf EXCEPT !.pc = StageAfter(stage),
                                   !.frame = out,
                                   !.calls = Append(@, [stage |-> stage, pts |-> pts,
                                                        input |-> pf.frame,
                                                        output |-> out])]
    /\ UNCHANGED call

PfColorShift == PfStage("color_shift")

PfEdgeEnhancement == PfStage("edge_enhancement")

PfGlowFilter == PfStage("glow_filter")

PfBreathRhythm == PfStage("breath_rhythm")

PfPhotonicNoise == PfStage("photonic_noise")

\* return frame
PfReturn ==
    /\ pf.pc = "return"
    /\ call.fn = "process_frame" /\ ~call.done
    /\ call' = [call EXCEPT !.done = TRUE, !.ret = Return(pf.frame)]
    /\ pf' = [pf EXCEPT !.pc = "done"]

NextPipeline ==
    \/ ColorShift \/ EdgeEnhancement \/ GlowFilter \/ BreathRhythm \/ PhotonicNoise
    \/ PfEnter \/ PfColorShift \/ PfEdgeEnhancement \/ PfGlowFilter
    \/ PfBreathRhythm \/ PfPhotonicNoise \/ PfReturn

SpecPipeline == InitPipeline /\ [][NextPipeline]_vars

(***************************************************************************)
(* Properties of the effects pipeline.                                     *)
(***************************************************************************)
StageNames ==
    {"color_shift", "edge_enhancement", "glow_filter", "breath_rhythm", "photonic_noise"}

\* b has the height, the width and the three channels of a, samples in 0..255
SameShapeInRange(a, b) == IsFrame(b, Height(a), Width(a))

\* C2: every stage, called on its own or by process_frame, and process_frame
\* itself return a frame of the height, width and channel count of their
\* input with every sample in 0..255.
C2_StagesKeepShapeAndRange ==
    /\ (call.fn \in StageNames \cup {"process_frame"} /\ call.done) =>
          /\ call.ret.kind = "return"
          /\ SameShapeInRange(call.args.frame, call.ret.value)
    /\ pf.pc # "idle" =>
          /\ SameShapeInRange(call.args.frame, pf.frame)
          /\ \A i \in 1..Len(pf.calls) :
                SameShapeInRange(pf.calls[i].input, pf.calls[i].output)

\* process_frame returned for a frame on which the noise stage drew a point
\* and brightened a pixel.
C2_Witness ==
    /\ call.fn = "process_frame" /\ call.done
    /\ Len(pf.calls) = 5
    /\ Len(pf.calls[5].pts) = 1
    /\ pf.calls[5].output # pf.calls[5].input
    /\ \E x \in 1..Width(call.ret.value) : call.ret.value[1][x][2] = 255
    /\ SameShapeInRange(call.args.frame, call.ret.value)

\* the stage order the specification fixes
SpecifiedOrder ==
    <<"color_shift", "edge_enhancement", "glow_filter", "breath_rhythm", "photonic_noise">>

\* C3: process_frame calls the five stages in the order color shift, edge
\* enhancement, glow, breath rhythm, photonic noise, each once, the first on
\* the frame it was given and each later one on the output of the one
\* before; it returns the output of the last.
C3_FixedStageOrder ==
    pf.pc # "idle" =>
        /\ Len(pf.calls) <= 5
        /\ \A i \in 1..Len(pf.calls) :
              /\ pf.calls[i].stage = SpecifiedOrder[i]
              /\ pf.calls[i].input =
                    IF i = 1 THEN call.args.frame ELSE pf.calls[i - 1].output
        /\ pf.pc \in {"return", "done"} => Len(pf.calls) = 5
        /\ call.done => /\ pf.pc = "done"
                        /\ call.ret = Return(pf.calls[5].output)

\* process_frame returned and every stage changed the frame it was given.
C3_Witness ==
    /\ call.fn = "process_frame" /\ call.done /\ pf.pc = "done"
    /\ Len(pf.calls) = 5
    /\ \A i \in 1..5 : pf.calls[i].output # pf.calls[i].input
    /\ call.ret = Return(pf.calls[5].output)

(***************************************************************************)
(* Further properties of the eyelid mask.                                  *)
(***************************************************************************)
\* C11: for progress = 1 the eye mask is 0 at every pixel outside the
\* immediate neighbourhood (one pixel to either side) of the centre column
\* x = w // 2; in particular on the centre row far from the centre column.
C11_ClosedMaskHides ==
    (call.fn = "create_eye_mask" /\ call.done /\ call.args.pn = call.args.pd) =>
        \A y \in 1..call.args.h : \A x \in 1..call.args.w :
            Abs((x - 1) - call.args.w \div 2) > 1 => call.ret[y][x] = 0

\* C12: the closing flag has no effect on the mask: the field returned for
\* (h, w, progress, closing) is the field of (h, w, progress, not closing).
C12_ClosingFlagIgnored ==
    (call.fn = "create_eye_mask" /\ call.done) =>
        call.ret = create_eye_mask(call.args.h, call.args.w, call.args.pn,
                                   call.args.pd, ~call.args.closing)

\* A half-closed eye asked for with closing = False: the field is neither
\* all visible nor all hidden.
C12_Witness ==
    /\ call.fn = "create_eye_mask" /\ call.done
    /\ ~call.args.closing
    /\ call.args.pn = 2 /\ call.args.pd = 4
    /\ call.args.h = 4 /\ call.args.w = 3
    /\ call.ret[3][2] = 1000
    /\ call.ret[1][1] < 1000
    /\ call.ret = create_eye_mask(4, 3, 2, 4, TRUE)

(***************************************************************************)
(* zoom_merge.py: blink_close_effect and blink_open_effect                 *)
(*                                                                         *)
(* t, the clip's duration and blink_duration are whole ticks, 0 <= t <=    *)
(* duration; a progress is the exact fraction num / den.                   *)
(***************************************************************************)
\* the mask applied to the three channels: frame[:, :, c] * mask, clipped
\* and cast to uint8
ApplyMask(frame, mask) ==
    [y \in 1..Height(frame) |-> [x \in 1..Width(frame) |-> [c \in 1..3 |->
        Clip(Trunc(frame[y][x][c] * mask[y][x], 1000), 0, 255)]]]

\* blink_close_effect: (t - (duration - blink_duration)) / blink_duration,
\* then squared (ease-in)
BlinkCloseProgress(t, duration, blink_duration) ==
    LET num == t - (duration - blink_duration)
    IN  [num |-> num * num, den |-> blink_duration * blink_duration]

\* blink_open_effect with the progress left uninverted
BlinkOpenProgressForward(t, blink_duration) ==
    LET den == blink_duration * blink_duration
        rest == (blink_duration - t) * (blink_duration - t)
    IN  [num |-> den - rest, den |-> den]

\* blink_open_effect: blink_progress = t / blink_duration, eased to
\* 1 - (1 - blink_progress)^2, then progress = 1 - blink_progress
BlinkOpenProgress(t, blink_duration) ==
    LET den == blink_duration * blink_duration
        rest == (blink_duration - t) * (blink_duration - t)
        blink_progress == den - rest
    IN  [num |-> den - blink_progress, den |-> den]

\* blink_close_effect whose window takes in its boundary
blink_close_make_frame_early(frame, t, duration, blink_duration) ==
    IF t >= duration - blink_duration
    THEN LET progress == BlinkCloseProgress(t, duration, blink_duration)
             mask == create_eye_mask(Height(frame), Width(frame),
                                     progress.num, progress.den, TRUE)
         IN  [locals |-> [in_window |-> TRUE, progress |-> progress, mask |-> mask],
              ret |-> Return(ApplyMask(frame, mask))]
    ELSE [locals |-> [in_window |-> FALSE], ret |-> Return(frame)]

\* make_frame of blink_close_effect, the frame being get_frame(t)
blink_close_make_frame(frame, t, duration, blink_duration) ==
    IF t > duration - blink_duration
    THEN LET progress == BlinkCloseProgress(t, duration, blink_duration)
             mask == create_eye_mask(Height(frame), Width(frame),
                                     progress.num, progress.den, TRUE)
         IN  [locals |-> [in_window |-> TRUE, progress |-> progress, mask |-> mask],
              ret |-> Return(ApplyMask(frame, mask))]
    ELSE [locals |-> [in_window |-> FALSE], ret |-> Return(frame)]

\* make_frame of blink_open_effect, the frame being get_frame(t)
blink_open_make_frame(frame, t, blink_duration) ==
    IF t < blink_duration
    THEN LET progress == BlinkOpenProgress(t, blink_duration)
             mask == create_eye_mask(Height(frame), Width(frame),
                                     progress.num, progress.den, FALSE)
         IN  [locals |-> [in_window |-> TRUE, progress |-> progress, mask |-> mask],
              ret |-> Return(ApplyMask(frame, mask))]
    ELSE [locals |-> [in_window |-> FALSE], ret |-> Return(frame)]

BlinkCalls ==
    {Pending(fn, [frame |-> TestFrame(h, w, "ramp"), t |-> t, duration |-> D,
                  blink_duration |-> bd]) :
        fn \in {"blink_close_effect", "blink_open_effect"},
        h \in 1..MaxZoomDim, w \in 1..MaxZoomDim,
        D \in 1..MaxDuration, t \in 0..MaxDuration, bd \in 1..MaxBlink}

InitBlink ==
    /\ call \in {c \in BlinkCalls : c.args.t <= c.args.duration}
    /\ pf = PfIdle

BlinkClose ==
    /\ call.fn = "blink_close_effect" /\ ~call.done
    /\ LET r == blink_close_make_frame(call.args.frame, call.args.t,
                                       call.args.duration, call.args.blink_duration)
       IN  call' = [call EXCEPT !.done = TRUE, !.ret = r.ret, !.locals = r.locals]
    /\ UNCHANGED pf

BlinkOpen ==
    /\ call.fn = "blink_open_effect" /\ ~call.done
    /\ LET r == blink_open_make_frame(call.args.frame, call.args.t,
                                      call.args.blink_duration)
       IN  call' = [call EXCEPT !.done = TRUE, !.ret = r.ret, !.locals = r.locals]
    /\ UNCHANGED pf

NextBlink == BlinkClose \/ BlinkOpen

SpecBlink == InitBlink /\ [][NextBlink]_vars

(***************************************************************************)
(* Properties of the blink effects.                                        *)
(***************************************************************************)
\* C13: outside the blink window the frame is returned unmodified, for
\* blink_close_effect at every t <= duration - blink_duration and for
\* blink_open_effect at every t >= blink_duration; inside the window the
\* three channels are the frame's multiplied by the eye mask.
C13_BlinkOutsideWindow ==
    /\ (call.fn = "blink_close_effect" /\ call.done) =>
          /\ call.args.t <= call.args.duration - call.args.blink_duration =>
                call.ret = Return(call.args.frame)
          /\ call.args.t > call.args.duration - call.args.blink_duration =>
                /\ call.locals.in_window
                /\ call.ret = Return(ApplyMask(call.args.frame, call.locals.mask))
    /\ (call.fn = "blink_open_effect" /\ call.done) =>
          /\ call.args.t >= call.args.blink_duration =>
                call.ret = Return(call.args.frame)
          /\ call.args.t < call.args.blink_duration =>
                /\ call.locals.in_window
                /\ call.ret = Return(ApplyMask(call.args.frame, call.locals.mask))

\* The closing blink called exactly at the start of its window: the frame,
\* which the open-eye mask would darken at a corner, comes back unmodified.
C13_Witness ==
    /\ call.fn = "blink_close_effect" /\ call.done
    /\ call.args.t = call.args.duration - call.args.blink_duration
    /\ ~call.locals.in_window
    /\ call.ret = Return(call.args.frame)
    /\ ApplyMask(call.args.frame,
                 create_eye_mask(Height(call.args.frame), Width(call.args.frame),
                                 0, 1, TRUE)) # call.args.frame

\* C14: inside a blink window the progress handed to create_eye_mask is in
\* [0, 1]; for blink_close_effect it does not decrease with t, is 0 at the
\* window's start duration - blink_duration and 1 at t = duration; for
\* blink_open_effect it does not increase with t, is 1 at t = 0 and 0 at
\* the window's end blink_duration.
C14_BlinkProgress ==
    /\ (call.fn = "blink_close_effect" /\ call.done /\ call.locals.in_window) =>
          LET p == call.locals.progress
              D == call.args.duration
              bd == call.args.blink_duration
              t == call.args.t
          IN  /\ 0 <= p.num /\ p.num <= p.den
              /\ t = D => p.num = p.den
              /\ t < D => p.num <= BlinkCloseProgress(t + 1, D, bd).num
              /\ BlinkCloseProgress(D - bd, D, bd).num = 0
    /\ (call.fn = "blink_open_effect" /\ call.done /\ call.locals.in_window) =>
          LET p == call.locals.progress
              bd == call.args.blink_duration
              t == call.args.t
          IN  /\ 0 <= p.num /\ p.num <= p.den
              /\ t = 0 => p.num = p.den
              /\ p.num >= BlinkOpenProgress(t + 1, bd).num
              /\ BlinkOpenProgress(bd, bd).num = 0

\* The opening blink strictly inside its window, the eye partly open.
C14_Witness ==
    /\ call.fn = "blink_open_effect" /\ call.done /\ call.locals.in_window
    /\ call.args.t = 1 /\ call.args.blink_duration = 3
    /\ call.locals.progress = [num |-> 4, den |-> 9]
    /\ BlinkOpenProgress(2, 3).num = 1

(***************************************************************************)
(* apply_emotion_overlay.py: load_timeline, main and render_video          *)
(*                                                                         *)
(* Times are seconds.  A video is what cv2.VideoCapture makes of the input *)
(* file: whether it opens, the frames its read() calls deliver one after   *)
(* another, and the frame count and rate its properties report.  The       *)
(* timestamp of frame k is the fraction k / fps.                           *)
(***************************************************************************)
\* the rate used when CAP_PROP_FPS reads 0
FallbackFps == 30

\* the k-th frame of the input, k counted from 0
VideoFrame(k) == <<<<<<40 * k + 10, 20, 30>>, <<200, 100, 10 * k>>>>>>

Videos ==
    {[opened |-> TRUE, frames |-> [k \in 1..n |-> VideoFrame(k - 1)],
      count |-> c, fps |-> f] :
        n \in 0..MaxFrames, c \in 0..(MaxFrames + 1), f \in {0, 1, 2}}
      \cup {[opened |-> FALSE, frames |-> <<>>, count |-> 0, fps |-> 0]}

OtherHex == <<"#", "f", "f", "0", "0", "0", "0", "8", "0">>

BadHex == <<"r", "e", "d">>

\* load_timeline: the segments of the JSON file when there is one, else one
\* segment of one second per default colour, type "tint", intensity 0.35
load_timeline(path, default_colors) ==
    IF path.exists
    THEN [i \in 1..Len(path.data) |->
             ColorOverlayConfig(path.data[i].emotion_id, path.data[i].hex,
                                path.data[i].start_time, path.data[i].duration,
                                path.data[i].overlay_type, path.data[i].intensity)]
    ELSE [i \in 1..Len(default_colors) |->
             ColorOverlayConfig(i - 1, default_colors[i], i - 1, 1, "tint", 7)]

\* timestamp = frame_idx / fps; select_color(configs, timestamp), the
\* comparison carried out in units of 1 / fps
SelectAtFrame(configs, frame_idx, fps) ==
    LET scaled == [i \in 1..Len(configs) |->
                      [configs[i] EXCEPT !.start_time = @ * fps, !.duration = @ * fps]]
        found == select_color(scaled, frame_idx)
    IN  IF found = None THEN None
        ELSE [found EXCEPT !.start_time = @ \div fps, !.duration = @ \div fps]

\* over_type = config.overlay_type or overlay_type
\* over_intensity = config.intensity if config.intensity is not None else intensity
\* (a segment's intensity is a float, never None)
OverlayOf(config, overlay_type, intensity) ==
    [over_type |-> IF config.overlay_type # "" THEN config.overlay_type
                   ELSE overlay_type,
     over_intensity |-> config.intensity]

\* the frame loops blending the default colour when no segment is selected
OverlayFrameAlways(frame, frame_idx, fps, configs, overlay_type, intensity) ==
    LET found == SelectAtFrame(configs, frame_idx, fps)
        config == IF found = None
                  THEN ColorOverlayConfig(0, DefaultHex, 0, 1, "tint", 7)
                  ELSE found
        rgba == hex_to_rgba(config.hex_color)
        over == OverlayOf(config, overlay_type, intensity)
    IN  [config |-> config, over |-> over,
         out |-> IF rgba.kind = "raise" THEN rgba
                 ELSE Return(apply_overlay(frame, rgba.value, over.over_type,
                                           over.over_intensity))]

\* the body of both frame loops: select the segment of the frame's
\* timestamp and blend its colour over the frame
OverlayFrame(frame, frame_idx, fps, configs, overlay_type, intensity) ==
    LET config == SelectAtFrame(configs, frame_idx, fps)
    IN  IF config = None
        THEN [config |-> None, over |-> None, out |-> Return(frame)]
        ELSE LET rgba == hex_to_rgba(config.hex_color)
                 over == OverlayOf(config, overlay_type, intensity)
             IN  [config |-> config, over |-> over,
                  out |-> IF rgba.kind = "raise" THEN rgba
                          ELSE Return(apply_overlay(frame, rgba.value, over.over_type,
                                                    over.over_intensity))]

\* the --timeline argument: no file, or the segments its JSON holds
NoTimelineFile == [exists |-> FALSE, data |-> <<>>]

TimelineData ==
    {<<>>,
     <<[emotion_id |-> 3, hex |-> OtherHex, start_time |-> 0, duration |-> 1,
        overlay_type |-> "radial", intensity |-> 20]>>,
     <<[emotion_id |-> 1, hex |-> DefaultHex, start_time |-> 0, duration |-> 1,
        overlay_type |-> "", intensity |-> 7],
       [emotion_id |-> 2, hex |-> BadHex, start_time |-> 1, duration |-> 1,
        overlay_type |-> "tint", intensity |-> 7]>>,
     <<[emotion_id |-> 1, hex |-> DefaultHex, start_time |-> 1, duration |-> 0 - 1,
        overlay_type |-> "tint", intensity |-> 7]>>}

TimelineFiles == {NoTimelineFile} \cup {[exists |-> TRUE, data |-> d] : d \in TimelineData}

ColorMaps == {<<>>, <<DefaultHex>>, <<DefaultHex, OtherHex>>}

FrameIndexLists == {<<>>, <<0, 1>>, <<1, 5>>}

CommandLines == {[overlay_type |-> "tint", intensity |-> 7],
                 [overlay_type |-> "radial", intensity |-> 20]}

\* the local variables of main and of render_video
RenderLocals(pc, video, configs, overlay_type, intensity) ==
    [pc |-> pc, timeline |-> <<>>, frames |-> <<>>, fps |-> 0, i |-> 1,
     processed_frames |-> <<>>, sprite_log |-> <<>>, sprite |-> None,
     video |-> video, configs |-> configs, overlay_type |-> overlay_type,
     intensity |-> intensity, capture |-> "none", writer |-> "none",
     rv_fps |-> 0, total_frames |-> 0, frame_idx |-> 0, frame |-> None,
     position |-> 0, events |-> <<>>, written |-> <<>>]

RenderCalls ==
    {[Pending("main", [video |-> video, color_map |-> color_map,
                       timeline |-> timeline, frame_indices |-> frame_indices,
                       overlay_type |-> cl.overlay_type, intensity |-> cl.intensity,
                       render |-> render])
        EXCEPT !.locals = RenderLocals("start", video, <<>>, cl.overlay_type,
                                       cl.intensity)] :
        video \in Videos, color_map \in ColorMaps, timeline \in TimelineFiles,
        frame_indices \in FrameIndexLists, cl \in CommandLines, render \in BOOLEAN}
      \cup
    {[Pending("render_video", [video |-> video, configs |-> load_timeline(timeline, <<>>),
                               overlay_type |-> cl.overlay_type,
                               intensity |-> cl.intensity])
        EXCEPT !.locals = RenderLocals("rv_open", video, load_timeline(timeline, <<>>),
                                       cl.overlay_type, cl.intensity)] :
        video \in Videos, timeline \in TimelineFiles \ {NoTimelineFile},
        cl \in CommandLines}

InitRender ==
    /\ call \in RenderCalls
    /\ pf = PfIdle

\* the call ends by raising; its locals stay as they were
Raised(e) == [call EXCEPT !.done = TRUE, !.ret = Raise(e)]

\* main up to the sprite loop: the argument checks, load_timeline,
\* extract_frames and the frame rate
MainStart ==
    /\ call.fn = "main" /\ ~call.done /\ call.locals.pc = "start"
    /\ LET a == call.args
           timeline == load_timeline(a.timeline, a.color_map)
           got == {idx \in {a.frame_indices[j] : j \in 1..Len(a.frame_indices)} :
                      idx < Len(a.video.frames)}
           frames == [idx \in got |-> a.video.frames[idx + 1]]
           fps == IF a.video.fps # 0 THEN a.video.fps ELSE FallbackFps
       IN  call' = IF Len(a.frame_indices) = 0 THEN Raised("ValueError")
                   ELSE IF Len(a.color_map) = 0 THEN Raised("RuntimeError")
                   ELSE IF ~a.video.opened THEN Raised("RuntimeError")
                   ELSE IF got = {} THEN Raised("RuntimeError")
                   ELSE [call EXCEPT !.locals.pc = "sprite",
                                     !.locals.timeline = timeline,
                                     !.locals.frames = frames,
                                     !.locals.fps = fps]
    /\ UNCHANGED pf

\* one iteration of for idx in frame_indices
MainSpriteFrame ==
    /\ call.fn = "main" /\ ~call.done /\ call.locals.pc = "sprite"
    /\ call.locals.i <= Len(call.args.frame_indices)
    /\ LET l == call.locals
           idx == call.args.frame_indices[l.i]
       IN  IF idx \notin DOMAIN l.frames
           THEN call' = [call EXCEPT !.locals.i = @ + 1]
           ELSE LET r == OverlayFrame(l.frames[idx], idx, l.fps, l.timeline,
                                      call.args.overlay_type, call.args.intensity)
                IN  call' = IF r.out.kind = "raise" THEN Raised(r.out.error)
                            ELSE [call EXCEPT
                                    !.locals.i = @ + 1,
                                    !.locals.processed_frames = Append(@, r.out.value),
                                    !.locals.sprite_log =
                                        Append(@, [idx |-> idx, source |-> l.frames[idx],
                                                   config |-> r.config, over |-> r.over,
                                                   frame |-> r.out.value])]
    /\ UNCHANGED pf

\* create_sprite (its tiles are the processed frames, resized to a width of
\* 320 and laid out five to a row), then render_video when --render is given
MainCreateSprite ==
    /\ call.fn = "main" /\ ~call.done /\ call.locals.pc = "sprite"
    /\ call.locals.i > Len(call.args.frame_indices)
    /\ LET l == call.locals
           n == Len(l.processed_frames)
           sprite == [tiles |-> l.processed_frames, rows |-> (n + 4) \div 5]
       IN  call' = IF n = 0 THEN Raised("ValueError")
                   ELSE IF call.args.render
                   THEN [call EXCEPT !.locals.sprite = sprite,
                                     !.locals.pc = "rv_open",
                                     !.locals.configs = l.timeline]
                   ELSE [call EXCEPT !.locals.sprite = sprite, !.locals.pc = "done",
                                     !.done = TRUE, !.ret = Return(None)]
    /\ UNCHANGED pf

\* render_video up to its loop: the capture, its properties, the writer
RvOpen ==
    /\ call.fn \in {"main", "render_video"} /\ ~call.done
    /\ call.locals.pc = "rv_open"
    /\ LET v == call.locals.video
       IN  call' = IF ~v.opened THEN Raised("RuntimeError")
                   ELSE [call EXCEPT
                           !.locals.pc = "rv_loop",
                           !.locals.capture = "open",
                           !.locals.writer = "open",
                           !.locals.rv_fps = IF v.fps # 0 THEN v.fps ELSE FallbackFps,
                           !.locals.total_frames = v.count,
                           !.locals.frame_idx = 0]
    /\ UNCHANGED pf

\* the loop going on to the next index after a failed read
RvReadOn ==
    /\ call.fn \in {"main", "render_video"} /\ ~call.done
    /\ call.locals.pc = "rv_loop"
    /\ call.locals.frame_idx < call.locals.total_frames
    /\ LET l == call.locals
           success == l.position < Len(l.video.frames)
       IN  call' = IF success
                   THEN [call EXCEPT
                           !.locals.pc = "rv_write",
                           !.locals.frame = l.video.frames[l.position + 1],
                           !.locals.position = @ + 1,
                           !.locals.events = Append(@, [op |-> "read", ok |-> TRUE,
                                                        idx |-> l.frame_idx])]
                   ELSE [call EXCEPT
                           !.locals.frame_idx = @ + 1,
                           !.locals.events = Append(@, [op |-> "read", ok |-> FALSE,
                                                        idx |-> l.frame_idx])]
    /\ UNCHANGED pf

\* for frame_idx in range(total_frames): success, frame = capture.read();
\* if not success: break
RvRead ==
    /\ call.fn \in {"main", "render_video"} /\ ~call.done
    /\ call.locals.pc = "rv_loop"
    /\ call.locals.frame_idx < call.locals.total_frames
    /\ LET l == call.locals
           success == l.position < Len(l.video.frames)
       IN  call' = IF success
                   THEN [call EXCEPT
                           !.locals.pc = "rv_write",
                           !.locals.frame = l.video.frames[l.position + 1],
                           !.locals.position = @ + 1,
                           !.locals.events = Append(@, [op |-> "read", ok |-> TRUE,
                                                        idx |-> l.frame_idx])]
                   ELSE [call EXCEPT
                           !.locals.pc = "rv_release",
                           !.locals.events = Append(@, [op |-> "read", ok |-> FALSE,
                                                        idx |-> l.frame_idx])]
    /\ UNCHANGED pf

\* range(total_frames) is exhausted
RvLoopEnd ==
    /\ call.fn \in {"main", "render_video"} /\ ~call.done
    /\ call.locals.pc = "rv_loop"
    /\ call.locals.frame_idx >= call.locals.total_frames
    /\ call' = [call EXCEPT !.locals.pc = "rv_release"]
    /\ UNCHANGED pf

\* the rest of the loop body: timestamp, select_color, the overlay,
\* writer.write(frame)
RvWrite ==
    /\ call.fn \in {"main", "render_video"} /\ ~call.done
    /\ call.locals.pc = "rv_write"
    /\ LET l == call.locals
           r == OverlayFrame(l.frame, l.frame_idx, l.rv_fps, l.configs,
                             l.overlay_type, l.intensity)
       IN  call' = IF r.out.kind = "raise" THEN Raised(r.out.error)
                   ELSE [call EXCEPT
                           !.locals.pc = "rv_loop",
                           !.locals.frame = r.out.value,
                           !.locals.frame_idx = @ + 1,
                           !.locals.events = Append(@, [op |-> "write", ok |-> TRUE,
                                                        idx |-> l.frame_idx]),
                           !.locals.written =
                               Append(@, [frame_idx |-> l.frame_idx,
                                          timestamp |-> [num |-> l.frame_idx,
                                                         den |-> l.rv_fps],
                                          source |-> l.frame, config |-> r.config,
                                          over |-> r.over, frame |-> r.out.value])]
    /\ UNCHANGED pf

\* capture.release(); writer.release(); the function returns
RvRelease ==
    /\ call.fn \in {"main", "render_video"} /\ ~call.done
    /\ call.locals.pc = "rv_release"
    /\ call' = [call EXCEPT
                  !.locals.pc = "done",
                  !.locals.capture = "released",
                  !.locals.writer = "released",
                  !.locals.events = @ \o <<[op |-> "release_capture", ok |-> TRUE,
                                            idx |-> call.locals.frame_idx],
                                           [op |-> "release_writer", ok |-> TRUE,
                                            idx |-> call.locals.frame_idx]>>,
                  !.done = TRUE, !.ret = Return(None)]
    /\ UNCHANGED pf

NextRender ==
    \/ MainStart \/ MainSpriteFrame \/ MainCreateSprite
    \/ RvOpen \/ RvRead \/ RvLoopEnd \/ RvWrite \/ RvRelease

SpecRender == InitRender /\ [][NextRender]_vars

(***************************************************************************)
(* Properties of main and render_video.                                    *)
(***************************************************************************)
\* the timeline in use has no segments
EmptyTimeline ==
    \/ call.fn = "main" /\ call.locals.pc # "start" /\ call.locals.timeline = <<>>
    \/ call.fn = "render_video" /\ call.args.configs = <<>>

\* C15: with a timeline of no segments select_color returns None, the
\* sprite loop of main and render_video hand every frame on unchanged with
\* no overlay, and no error is raised by either loop.
C15_EmptyTimelinePassesThrough ==
    EmptyTimeline =>
        /\ \A ts \in Ticks : select_color(<<>>, ts) = None
        /\ \A k \in 1..Len(call.locals.sprite_log) :
              LET e == call.locals.sprite_log[k]
              IN  e.config = None /\ e.frame = e.source
        /\ \A k \in 1..Len(call.locals.written) :
              LET e == call.locals.written[k]
              IN  e.config = None /\ e.frame = e.source
        /\ call.locals.pc \in {"sprite", "rv_write"} => ~call.done
        /\ (call.done /\ call.ret.kind = "raise") => call.locals.pc = "rv_open"

\* main ran to its end on an empty timeline file: two sprite frames and
\* two rendered frames, all as they were read.
C15_Witness ==
    /\ call.fn = "main" /\ call.done /\ call.ret = Return(None)
    /\ call.args.timeline = [exists |-> TRUE, data |-> <<>>]
    /\ call.locals.timeline = <<>>
    /\ Len(call.locals.sprite_log) = 2
    /\ Len(call.locals.written) = 2
    /\ \A k \in 1..2 : call.locals.written[k].frame = VideoFrame(k - 1)
    /\ call.locals.processed_frames = <<VideoFrame(0), VideoFrame(1)>>

\* render_video has opened its capture
Rendering == call.fn \in {"main", "render_video"} /\ call.locals.capture # "none"

\* the positions of the events of render_video that satisfy a test
ReadsBefore(E, p) == Cardinality({q \in 1..(p - 1) : E[q].op = "read"})

C20_CommandLineDecides ==
    (call.fn = "main" /\ ~call.args.timeline.exists) =>
        /\ \A k \in 1..Len(call.locals.sprite_log) :
              LET e == call.locals.sprite_log[k]
              IN  e.config # None =>
                     /\ e.over.over_type = call.args.overlay_type
                     /\ e.over.over_intensity = call.args.intensity
        /\ \A k \in 1..Len(call.locals.written) :
              LET e == call.locals.written[k]
              IN  e.config # None =>
                     /\ e.over.over_type = call.args.overlay_type
                     /\ e.over.over_intensity = call.args.intensity

(***************************************************************************)
(* The stages called on malformed rasters: an empty raster, a raster of    *)
(* one channel and a raster of four, next to well-formed ones.             *)
(***************************************************************************)
MalformedFrames ==
    {<<>>,
     <<<<<<7>>, <<250>>>>>>,
     <<<<<<40, 130, 250, 255>>, <<130, 130, 250, 128>>>>>>}

StageFrames == MalformedFrames \cup {TestFrame(1, 2, "ramp"), TestFrame(2, 2, "checker")}

MalformedCalls ==
    {Pending("color_shift", [frame |-> frame, t |-> t]) :
        frame \in StageFrames, t \in Ticks}
      \cup {Pending("edge_enhancement", [frame |-> frame, strength |-> strength]) :
              frame \in StageFrames, strength \in {15, 20}}
      \cup {Pending("glow_filter", [frame |-> frame, intensity |-> intensity]) :
              frame \in StageFrames, intensity \in {25, 30}}
      \cup {Pending("breath_rhythm", [frame |-> frame, t |-> t, period |-> period]) :
              frame \in StageFrames, t \in Ticks, period \in {1, 6}}
      \cup {c \in {Pending("photonic_noise",
                           [frame |-> frame, t |-> t, density |-> density]) :
                     frame \in StageFrames, t \in Ticks, density \in {0, 8, 500}} :
              NumPoints(Height(c.args.frame), Width(c.args.frame), c.args.density)
                <= MaxPoints}

InitMalformed ==
    /\ call \in MalformedCalls
    /\ pf = PfIdle

NextMalformed ==
    ColorShift \/ EdgeEnhancement \/ GlowFilter \/ BreathRhythm \/ PhotonicNoise

SpecMalformed == InitMalformed /\ [][NextMalformed]_vars

\* frame.shape is not (h, w, 3) with h, w >= 1
Malformed(frame) == IsEmptyFrame(frame) \/ Channels(frame) # 3

\* C16: a stage given a malformed frame (an empty raster, or one whose
\* channel count is not 3) ends in an error and returns no frame; given a
\* valid frame it returns a frame.
C16_MalformedRaises ==
    (call.fn \in StageNames /\ call.done) =>
        IF Malformed(call.args.frame)
        THEN call.ret.kind = "raise"
        ELSE call.ret.kind = "return"

(***************************************************************************)
(* Set-up and first use: zoom_effect wraps a clip and the clip then asks   *)
(* transform_frame for a frame; load_timeline builds the segments and the  *)
(* frame loops then query select_color.  locals.pc is the step reached.    *)
(***************************************************************************)
\* the clips zoom_effect is given: duration, and size (w, h)
Clips ==
    {[duration |-> D, w |-> w, h |-> h] :
        D \in 0..MaxDuration, w \in 0..MaxDim, h \in 0..MaxDim}

SetupCalls ==
    {[Pending("zoom_effect", [clip |-> clip, zoom_in |-> 1300, zoom_out |-> zoom_out,
                              t2 |-> t2])
        EXCEPT !.locals = [pc |-> "setup", setup |-> None]] :
        clip \in Clips, zoom_out \in {500, 1000}, t2 \in 0..(2 * MaxDuration)}
      \cup
    {[Pending("load_timeline", [path |-> path, default_colors |-> <<DefaultHex>>,
                                timestamp |-> timestamp])
        EXCEPT !.locals = [pc |-> "setup", setup |-> None]] :
        path \in TimelineFiles, timestamp \in 0..MaxFrames}

InitSetup ==
    /\ call \in {c \in SetupCalls :
                   c.fn = "zoom_effect" => c.args.t2 <= 2 * c.args.clip.duration}
    /\ pf = PfIdle

\* zoom_effect: duration and size are read off the clip, transform_frame
\* is defined and handed to clip.fl
ZoomEffect ==
    /\ call.fn = "zoom_effect" /\ ~call.done /\ call.locals.pc = "setup"
    /\ call' = [call EXCEPT
                  !.locals.pc = "frames",
                  !.locals.setup = Return([duration |-> call.args.clip.duration,
                                           w |-> call.args.clip.w,
                                           h |-> call.args.clip.h])]
    /\ UNCHANGED pf

\* the wrapped clip asks transform_frame for the frame at t
TransformFrameOfClip ==
    /\ call.fn = "zoom_effect" /\ ~call.done /\ call.locals.pc = "frames"
    /\ LET c == call.locals.setup.value
           r == transform_frame(TestFrame(c.h, c.w, "ramp"), call.args.t2, c.duration,
                                call.args.zoom_in, call.args.zoom_out, c.w, c.h)
       IN  call' = [call EXCEPT !.done = TRUE, !.ret = r.ret, !.locals.pc = "done"]
    /\ UNCHANGED pf

\* load_timeline as main calls it
LoadTimeline ==
    /\ call.fn = "load_timeline" /\ ~call.done /\ call.locals.pc = "setup"
    /\ call' = [call EXCEPT
                  !.locals.pc = "frames",
                  !.locals.setup = Return(load_timeline(call.args.path,
                                                        call.args.default_colors))]
    /\ UNCHANGED pf

\* a frame loop queries select_color on the loaded timeline
SelectColorOfTimeline ==
    /\ call.fn = "load_timeline" /\ ~call.done /\ call.locals.pc = "frames"
    /\ call' = [call EXCEPT
                  !.done = TRUE, !.locals.pc = "done",
                  !.ret = Return(select_color(call.locals.setup.value,
                                              call.args.timestamp))]
    /\ UNCHANGED pf

NextSetup == ZoomEffect \/ TransformFrameOfClip \/ LoadTimeline \/ SelectColorOfTimeline

SpecSetup == InitSetup /\ [][NextSetup]_vars

\* the configuration of the call is degenerate
Degenerate ==
    \/ /\ call.fn = "zoom_effect"
       /\ call.args.clip.duration = 0 \/ call.args.clip.w = 0 \/ call.args.clip.h = 0
    \/ /\ call.fn = "load_timeline"
       /\ call.args.path.exists
       /\ \E i \in 1..Len(call.args.path.data) : call.args.path.data[i].duration < 0

\* C17: a degenerate configuration (a clip of duration 0 or of zero width
\* or height given to zoom_effect, a timeline segment of negative
\* duration) is rejected at set-up with an error, and neither
\* transform_frame nor select_color is ever invoked on it.
C17_DegenerateRejected ==
    (Degenerate /\ call.locals.pc # "setup") =>
        /\ call.locals.setup.kind = "raise"
        /\ call.locals.pc # "done"

(***************************************************************************)
(* Two runs of the five stages over one frame sequence.  The only state    *)
(* that outlives a frame is the generator behind np.random: a run holds    *)
(* the number of draws it has consumed from its stream.  The second run    *)
(* takes the frames in any order, as write_gif re-reads frames that        *)
(* write_videofile has already asked for.                                  *)
(***************************************************************************)
\* the timestamps t = 0, 1, 2 s of the sequence, in half seconds
SequenceTimes == <<0, 2, 4>>

SequenceFrames == {TestFrame(1, 2, pat) : pat \in {"night", "checker", "ramp"}}

\* the values np.random.uniform(0, 1) returns in turn, in tenths
RandomStreams == {<<0, 0, 0, 0, 0, 0>>, <<6, 3, 2, 8, 9, 1>>}

\* int(np.random.uniform(0, n)) for the draw at position pos of the stream
UniformInt(stream, pos, n) == Trunc(stream[(pos % Len(stream)) + 1] * n, 10)

\* the n points the loop of photonic_noise draws, x before y
DrawPoints(stream, pos, h, w, n) ==
    [i \in 1..n |-> <<UniformInt(stream, pos + 2 * (i - 1), w),
                      UniformInt(stream, pos + 2 * (i - 1) + 1, h)>>]

RECURSIVE StagesFrom(_, _, _, _)
\* the statements of process_frame from the i-th on
StagesFrom(frame, t, pts, i) ==
    IF i > Len(ProcessFrameStages) THEN frame
    ELSE StagesFrom(StageOutput(ProcessFrameStages[i], frame, t, pts), t, pts, i + 1)

\* a run before its first frame
RunStart(order, stream) ==
    [order |-> order, stream |-> stream, n |-> 0, rng |-> 0,
     out |-> [k \in 1..Len(SequenceTimes) |-> <<>>]]

SequenceCalls ==
    {[Pending("process_sequence", [frames |-> frames, density |-> density])
        EXCEPT !.locals = [first |-> RunStart([k \in 1..Len(SequenceTimes) |-> k], s1),
                           second |-> RunStart(order, s2)]] :
        frames \in [1..Len(SequenceTimes) -> SequenceFrames],
        density \in {0, 500},
        order \in Permutations(1..Len(SequenceTimes)),
        s1 \in RandomStreams, s2 \in RandomStreams}

InitSequence ==
    /\ call \in SequenceCalls
    /\ pf = PfIdle

\* a run after its next frame has gone through the five stages
RunFrame(run, frames, density) ==
    LET k == run.order[run.n + 1]
        frame == frames[k]
        h == Height(frame)
        w == Width(frame)
        num_points == NumPoints(h, w, density)
        pts == DrawPoints(run.stream, run.rng, h, w, num_points)
    IN  [run EXCEPT !.n = @ + 1,
                    !.rng = @ + 2 * num_points,
                    !.out[k] = StagesFrom(frame, SequenceTimes[k], pts, 1)]

RunFirst ==
    /\ call.fn = "process_sequence" /\ ~call.done
    /\ call.locals.first.n < Len(SequenceTimes)
    /\ call' = [call EXCEPT !.locals.first =
                                RunFrame(@, call.args.frames, call.args.density)]
    /\ UNCHANGED pf

RunSecond ==
    /\ call.fn = "process_sequence" /\ ~call.done
    /\ call.locals.second.n < Len(SequenceTimes)
    /\ call' = [call EXCEPT !.locals.second =
                                RunFrame(@, call.args.frames, call.args.density)]
    /\ UNCHANGED pf

\* both runs have written their last frame
SequenceDone ==
    /\ call.fn = "process_sequence" /\ ~call.done
    /\ call.locals.first.n = Len(SequenceTimes)
    /\ call.locals.second.n = Len(SequenceTimes)
    /\ call' = [call EXCEPT !.done = TRUE,
                            !.ret = Return(<<call.locals.first.out,
                                             call.locals.second.out>>)]
    /\ UNCHANGED pf

NextSequence == RunFirst \/ RunSecond \/ SequenceDone

SpecSequence == InitSequence /\ [][NextSequence]_vars

\* the k-th frame has been processed by the run
Processed(run, k) == \E j \in 1..run.n : run.order[j] = k

\* C18: with density = 0 the five stages are deterministic: a frame that
\* both runs have processed has the same output in both, whatever the
\* order in which the second run took the frames and whatever the random
\* streams of the two runs, and neither run consumes a random draw.
C18_DeterministicWithoutNoise ==
    (call.fn = "process_sequence" /\ call.args.density = 0) =>
        /\ call.locals.first.rng = 0
        /\ call.locals.second.rng = 0
        /\ \A k \in 1..Len(SequenceTimes) :
              (Processed(call.locals.first, k) /\ Processed(call.locals.second, k)) =>
                  call.locals.first.out[k] = call.locals.second.out[k]

\* both runs are complete with density = 0, the second run took the frames
\* in another order from another stream, and the frames are not all alike
C18_Witness ==
    /\ call.fn = "process_sequence" /\ call.done
    /\ call.args.density = 0
    /\ call.locals.second.order = <<3, 1, 2>>
    /\ call.locals.first.stream # call.locals.second.stream
    /\ call.args.frames[1] # call.args.frames[2]
    /\ call.ret.value[1] = call.ret.value[2]
    /\ call.ret.value[1][1] # call.ret.value[1][2]

(***************************************************************************)
(* Colour channels.  The frames extract_frames and render_video blend are  *)
(* the rasters capture.read() returns, whose samples are ordered blue,     *)
(* green, red; hex_to_rgba orders its result red, green, blue, alpha.      *)
(***************************************************************************)
CaptureOrder == <<"blue", "green", "red">>

\* the index of a component in an ordering
ChannelOf(order, name) == CHOOSE i \in 1..Len(order) : order[i] = name

\* C21: on a frame of the video capture, apply_overlay blends the red,
\* green and blue components of the parsed colour into the frame's red,
\* green and blue channels: a tint of ff0000ff at intensity 1 yields a
\* frame that is red and nothing else.
C21_TintKeepsChannels ==
    (/\ call.fn = "apply_overlay" /\ call.done
     /\ call.args.overlay_type = "tint"
     /\ call.args.rgba = <<255, 0, 0, 255>>
     /\ call.args.intensity = 20) =>
        \A y \in 1..Height(call.ret) : \A x \in 1..Width(call.ret) :
            /\ call.ret[y][x][ChannelOf(CaptureOrder, "red")] = 255
            /\ call.ret[y][x][ChannelOf(CaptureOrder, "green")] = 0
            /\ call.ret[y][x][ChannelOf(CaptureOrder, "blue")] = 0

(***************************************************************************)
(* The number of points photonic_noise draws.                              *)
(***************************************************************************)
\* h * w * density of a call of photonic_noise, in thousandths
NoiseProduct == Height(call.args.frame) * Width(call.args.frame) * call.args.density

\* C22 as stated: photonic_noise draws ceil(h * w * density) points, so a
\* positive product that is not an integer is rounded up.
C22_PointCountRoundsUp ==
    (call.fn = "photonic_noise" /\ call.done) =>
        /\ 1000 * call.locals.num_points >= NoiseProduct
        /\ 1000 * (call.locals.num_points - 1) < NoiseProduct

\* C22: photonic_noise draws exactly int(h * w * density) points, the
\* product truncated toward zero, and one position per point; a frame with
\* 0 < h * w * density < 1 receives no point and is returned as it came.
C22_PointCountTruncates ==
    (call.fn = "photonic_noise" /\ call.done) =>
        /\ 1000 * call.locals.num_points <= NoiseProduct
        /\ NoiseProduct < 1000 * (call.locals.num_points + 1)
        /\ Len(call.locals.pts) = call.locals.num_points
        /\ (NoiseProduct < 1000 /\ call.ret.kind = "return") =>
               call.ret.value = call.args.frame

\* a call whose product is positive and below one: no point is drawn and
\* the frame comes back as it was
C22_Witness ==
    /\ call.fn = "photonic_noise" /\ call.done
    /\ NoiseProduct > 0 /\ NoiseProduct < 1000
    /\ call.locals.num_points = 0
    /\ call.locals.pts = <<>>
    /\ call.ret.kind = "return" /\ call.ret.value = call.args.frame

(***************************************************************************)
(* The range of the eased breath.                                          *)
(***************************************************************************)
\* C23: for every t >= 0 and period > 0 the eased breath of breath_rhythm
\* lies in [0.2, 0.8], to within 0.05; hence the blend weight breath * 0.3
\* lies in [0, 1] and the brightness factor 1 + breath * 0.1 is at least 1.
C23_BreathRange ==
    (call.fn = "breath_rhythm" /\ call.done) =>
        LET breath == Breath(call.args.t, call.args.period)
        IN  /\ 150 <= breath /\ breath <= 850
            /\ 0 <= 3 * breath /\ 3 * breath <= 10000
            /\ 10000 + breath >= 10000

(***************************************************************************)
(* Buffers.  A frame is an array object: heap holds the arrays allocated   *)
(* so far and a frame variable holds the index of one.  An effect is       *)
(* called for two timestamps on the arrays get_frame supplies, which may   *)
(* be one array (a still image, or the reader's last frame read again) or  *)
(* two.  Each effect allocates, writes and returns as its statements do.   *)
(***************************************************************************)
Effects ==
    {"color_shift", "edge_enhancement", "glow_filter", "breath_rhythm",
     "photonic_noise", "apply_overlay", "transform_frame",
     "blink_close_effect", "blink_open_effect"}

BufferFrames == {TestFrame(1, 2, "ramp"), TestFrame(2, 2, "checker")}

\* a new array holding value
Alloc(heap, value) == [heap |-> Append(heap, value), id |-> Len(heap) + 1]

\* an assignment into the array id
Store(heap, id, value) == [heap EXCEPT ![id] = value]

\* the value an effect computes from the frame it is given; the blink
\* clips last duration 3 with blink_duration 1, the zoom clip lasts 3
EffectValue(effect, frame, t, pts) ==
    CASE effect = "apply_overlay" -> apply_overlay(frame, <<255, 0, 0, 255>>, "tint", 7)
      [] effect = "transform_frame" ->
            transform_frame(frame, 2 * t, 3, 1300, 1000,
                            Width(frame), Height(frame)).ret.value
      [] effect = "blink_close_effect" -> blink_close_make_frame(frame, t, 3, 1).ret.value
      [] effect = "blink_open_effect" -> blink_open_make_frame(frame, t, 1).ret.value
      [] OTHER -> StageOutput(effect, frame, t, pts)

\* the effect returns the object it was given: make_frame of a blink
\* outside the blink window ends in `return frame` with frame still the
\* result of get_frame(t)
ReturnsArgument(effect, t) ==
    \/ effect = "blink_close_effect" /\ ~(t > 3 - 1)
    \/ effect = "blink_open_effect" /\ ~(t < 1)

\* the effect assigns into a working copy before it builds its result:
\* result = frame.copy().astype(...) or frame = frame.astype(...), then
\* result[...] = ...
WritesWorkingCopy(effect) ==
    effect \in {"color_shift", "photonic_noise", "blink_close_effect", "blink_open_effect"}

\* the heap and the returned array after the call of effect on array id
EffectOnBuffer(effect, heap, id, t, pts) ==
    IF ReturnsArgument(effect, t) THEN [heap |-> heap, id |-> id]
    ELSE LET value == EffectValue(effect, heap[id], t, pts)
         IN  IF WritesWorkingCopy(effect)
             THEN LET copy == Alloc(heap, heap[id])
                  IN  Alloc(Store(copy.heap, copy.id, value), value)
             ELSE Alloc(heap, value)

BufferCalls ==
    {[Pending(effect, [frame |-> frame, shared |-> shared, t |-> <<t1, t2>>])
        EXCEPT !.locals = [n |-> 0,
                           heap |-> IF shared THEN <<frame>> ELSE <<frame, frame>>,
                           input |-> IF shared THEN <<1, 1>> ELSE <<1, 2>>,
                           output |-> <<>>,
                           palette |-> NEURO_PALETTE]] :
        effect \in Effects, frame \in BufferFrames, shared \in BOOLEAN,
        t1 \in 0..3, t2 \in 0..3}

InitBuffers ==
    /\ call \in {c \in BufferCalls : c.args.t[1] # c.args.t[2]}
    /\ pf = PfIdle

\* the next call of the effect: on get_frame(t) for the next timestamp
EffectCall(effect) ==
    /\ call.fn = effect /\ ~call.done
    /\ LET l == call.locals
           k == l.n + 1
           id == l.input[k]
           h == Height(l.heap[id])
           w == Width(l.heap[id])
           n == IF effect = "photonic_noise" THEN NumPoints(h, w, 500) ELSE 0
       IN  \E pts \in PointDraws(h, w, n) :
              LET r == EffectOnBuffer(effect, l.heap, id, call.args.t[k], pts)
              IN  call' = [call EXCEPT
                             !.done = (k = Len(call.args.t)),
                             !.ret = IF k = Len(call.args.t)
                                     THEN Return(Append(l.output, r.id)) ELSE @,
                             !.locals.n = k,
                             !.locals.heap = r.heap,
                             !.locals.output = Append(@, r.id)]
    /\ UNCHANGED pf

BufColorShift == EffectCall("color_shift")

BufEdgeEnhancement == EffectCall("edge_enhancement")

BufGlowFilter == EffectCall("glow_filter")

BufBreathRhythm == EffectCall("breath_rhythm")

BufPhotonicNoise == EffectCall("photonic_noise")

BufApplyOverlay == EffectCall("apply_overlay")

BufTransformFrame == EffectCall("transform_frame")

BufBlinkClose == EffectCall("blink_close_effect")

BufBlinkOpen == EffectCall("blink_open_effect")

NextBuffers ==
    \/ BufColorShift \/ BufEdgeEnhancement \/ BufGlowFilter \/ BufBreathRhythm
    \/ BufPhotonicNoise \/ BufApplyOverlay \/ BufTransformFrame
    \/ BufBlinkClose \/ BufBlinkOpen

SpecBuffers == InitBuffers /\ [][NextBuffers]_vars

\* C24: after any call of an effect the caller's frame and NEURO_PALETTE
\* hold the values they held before, and the frame returned for one
\* timestamp shares no storage with the frame returned for another.
C24_NoMutationNoAliasing ==
    call.fn \in Effects =>
        /\ \A k \in 1..Len(call.locals.input) :
              call.locals.heap[call.locals.input[k]] = call.args.frame
        /\ call.locals.palette = NEURO_PALETTE
        /\ \A j, k \in 1..Len(call.locals.output) :
              j # k => call.locals.output[j] # call.locals.output[k]

(***************************************************************************)
(* process_neuro_video and its temporary audio file.  locals.pc is the     *)
(* statement reached; temp is the state of the file on disk and unlinks    *)
(* counts the calls of os.unlink on it.  processed_clip.on_close is not a  *)
(* method this repository defines: either the clip class has none and the  *)
(* call raises AttributeError, or it registers the callback, and then the  *)
(* teaser cut from the clip may or may not carry the callback with it.     *)
(***************************************************************************)
OnCloseOutcomes == {"AttributeError", "registered"}

VideoCalls ==
    {[Pending("process_neuro_video",
              [input_exists |-> input_exists, add_audio |-> add_audio,
               clip_audio |-> clip_audio, gif_path |-> gif_path,
               gif_duration |-> gif_duration, duration |-> duration,
               on_close |-> on_close, teaser_inherits |-> teaser_inherits])
        EXCEPT !.locals = [pc |-> "start", temp |-> "none", unlinks |-> 0,
                           cleanup |-> FALSE, teaser_duration |-> 0,
                           written |-> <<>>]] :
        input_exists \in BOOLEAN, add_audio \in BOOLEAN, clip_audio \in BOOLEAN,
        gif_path \in BOOLEAN, gif_duration \in {1, 5}, duration \in 1..MaxDuration,
        on_close \in OnCloseOutcomes, teaser_inherits \in BOOLEAN}

InitVideo ==
    /\ call \in VideoCalls
    /\ pf = PfIdle

\* the function ends with an error raised at the statement reached
PnvRaise(e) == [call EXCEPT !.done = TRUE, !.ret = Raise(e)]

\* cleanup(): os.unlink(temp_audio.name); audio_clip.close()
Cleanup(l) ==
    [locals |-> [l EXCEPT !.unlinks = @ + 1,
                          !.temp = IF @ = "exists" THEN "removed" ELSE @],
     ok |-> l.temp = "exists"]

\* the input is checked and loaded, the effects are attached
PnvLoad ==
    /\ call.fn = "process_neuro_video" /\ ~call.done
    /\ call.locals.pc = "start"
    /\ call' = IF ~call.args.input_exists
               THEN [call EXCEPT !.done = TRUE, !.ret = Return(None),
                                 !.locals.pc = "returned"]
               ELSE [call EXCEPT !.locals.pc = "audio"]
    /\ UNCHANGED pf

\* if add_audio and clip.audio is None: the temporary file is written and
\* cleanup is handed to processed_clip.on_close
PnvAudio ==
    /\ call.fn = "process_neuro_video" /\ ~call.done
    /\ call.locals.pc = "audio"
    /\ call' = IF call.args.add_audio /\ ~call.args.clip_audio
               THEN IF call.args.on_close = "AttributeError"
                    THEN [PnvRaise("AttributeError") EXCEPT !.locals.temp = "exists"]
                    ELSE [call EXCEPT !.locals.pc = "write",
                                      !.locals.temp = "exists",
                                      !.locals.cleanup = TRUE]
               ELSE [call EXCEPT !.locals.pc = "write"]
    /\ UNCHANGED pf

\* processed_clip.write_videofile, which succeeds or raises
PnvWriteVideo ==
    /\ call.fn = "process_neuro_video" /\ ~call.done
    /\ call.locals.pc = "write"
    /\ \E ok \in BOOLEAN :
          call' = IF ok
                  THEN [call EXCEPT !.locals.pc = "gif",
                                    !.locals.written = Append(@, "video")]
                  ELSE PnvRaise("IOError")
    /\ UNCHANGED pf

\* if gif_path: the teaser is cut, written (or the writing raises) and
\* closed
PnvTeaser ==
    /\ call.fn = "process_neuro_video" /\ ~call.done
    /\ call.locals.pc = "gif"
    /\ \E ok \in BOOLEAN :
          LET l == [call.locals EXCEPT
                      !.teaser_duration = Min(call.args.gif_duration,
                                              call.args.duration)]
              closed == IF l.cleanup /\ call.args.teaser_inherits
                        THEN Cleanup(l) ELSE [locals |-> l, ok |-> TRUE]
          IN  call' =
                IF ~call.args.gif_path THEN [call EXCEPT !.locals.pc = "close"]
                ELSE IF ~ok THEN [PnvRaise("IOError") EXCEPT !.locals = l]
                ELSE IF ~closed.ok
                THEN [PnvRaise("FileNotFoundError") EXCEPT !.locals = closed.locals]
                ELSE [call EXCEPT
                        !.locals = [closed.locals EXCEPT
                                      !.pc = "close",
                                      !.written = Append(@, "gif")]]
    /\ UNCHANGED pf

\* processed_clip.close(); clip.close(); the function returns
PnvClose ==
    /\ call.fn = "process_neuro_video" /\ ~call.done
    /\ call.locals.pc = "close"
    /\ LET closed == IF call.locals.cleanup THEN Cleanup(call.locals)
                     ELSE [locals |-> call.locals, ok |-> TRUE]
       IN  call' = IF ~closed.ok
                   THEN [PnvRaise("FileNotFoundError") EXCEPT !.locals = closed.locals]
                   ELSE [call EXCEPT !.done = TRUE, !.ret = Return(None),
                                     !.locals = [closed.locals EXCEPT !.pc = "returned"]]
    /\ UNCHANGED pf

NextVideo == PnvLoad \/ PnvAudio \/ PnvWriteVideo \/ PnvTeaser \/ PnvClose

SpecVideo == InitVideo /\ [][NextVideo]_vars

\* C25: when process_neuro_video has ended, by return or by an error,
\* the temporary audio file it created no longer exists, and its removal
\* has been attempted at most once.
C25_TempAudioReleased ==
    (call.fn = "process_neuro_video" /\ call.done) =>
        /\ call.locals.temp # "exists"
        /\ call.locals.unlinks <= 1

(***************************************************************************)
(* optimize_graphics.py: optimize_png and optimize_jpg.  fs is the file    *)
(* system: the file at the input path and the file at another output       *)
(* path, each a size with the bytes it holds ("original", "encoded" by     *)
(* img.save, or "partial" when img.save failed on the way), or absent.     *)
(***************************************************************************)
Absent == [size |-> 0, data |-> "absent"]

OriginalFile(size) == [size |-> size, data |-> "original"]

\* the modes Image.open can report; "unreadable" is a file it rejects
ImageModes == {"RGB", "RGBA", "LA", "P", "unreadable"}

\* what img.save can do at output_path: write new_size bytes, or fail
\* having written some
SaveOutcomes ==
    {[ok |-> TRUE, size |-> new_size] : new_size \in 1..MaxSize}
      \cup {[ok |-> FALSE, size |-> 0]}

\* the body shared by optimize_png and optimize_jpg: open, save, compare
\* sizes, replace or remove.  in_place: output_path == input_str.
OptimizeImage(fs, mode, in_place, save) ==
    IF mode = "unreadable" THEN [fs |-> fs, ret |-> FALSE]
    ELSE LET written == IF save.ok THEN [size |-> save.size, data |-> "encoded"]
                        ELSE [size |-> 0, data |-> "partial"]
             saved_fs == IF in_place THEN [fs EXCEPT !.input = written]
                         ELSE [fs EXCEPT !.output = written]
             orig_size == saved_fs.input.size
             new_size == IF in_place THEN saved_fs.input.size
                         ELSE saved_fs.output.size
             saved == orig_size - new_size
         IN  IF ~save.ok THEN [fs |-> saved_fs, ret |-> FALSE]
             ELSE IF saved > 0
             THEN [fs |-> IF in_place THEN saved_fs
                          ELSE [input |-> saved_fs.output, output |-> Absent],
                   ret |-> TRUE]
             ELSE [fs |-> IF in_place THEN saved_fs
                          ELSE [saved_fs EXCEPT !.output = Absent],
                   ret |-> FALSE]

OptimizeCalls ==
    {[Pending(fn, [size |-> size, mode |-> mode, output_path |-> output_path])
        EXCEPT !.locals = [fs |-> [input |-> OriginalFile(size), output |-> Absent],
                           optimized |-> 0, total_saved |-> 0]] :
        fn \in {"optimize_png", "optimize_jpg"}, size \in 1..MaxSize,
        mode \in ImageModes, output_path \in {"None", "input", "other"}}
      \cup
    {[Pending("main", [size |-> size, mode |-> mode, suffix |-> suffix])
        EXCEPT !.locals = [fs |-> [input |-> OriginalFile(size), output |-> Absent],
                           optimized |-> 0, total_saved |-> 0]] :
        size \in 1..MaxSize, mode \in ImageModes,
        suffix \in {".png", ".jpg", ".jpeg", ".txt"}}

InitOptimize ==
    /\ call \in OptimizeCalls
    /\ pf = PfIdle

OptimizePng ==
    /\ call.fn = "optimize_png" /\ ~call.done
    /\ \E save \in SaveOutcomes :
          LET r == OptimizeImage(call.locals.fs, call.args.mode,
                                 call.args.output_path \in {"None", "input"}, save)
          IN  call' = [call EXCEPT !.done = TRUE, !.ret = Return(r.ret),
                                   !.locals.fs = r.fs]
    /\ UNCHANGED pf

OptimizeJpg ==
    /\ call.fn = "optimize_jpg" /\ ~call.done
    /\ \E save \in SaveOutcomes :
          LET r == OptimizeImage(call.locals.fs, call.args.mode,
                                 call.args.output_path \in {"None", "input"}, save)
          IN  call' = [call EXCEPT !.done = TRUE, !.ret = Return(r.ret),
                                   !.locals.fs = r.fs]
    /\ UNCHANGED pf

\* main on the path of one file: the optimizer of its suffix is called
\* with the default output_path
OptimizeMain ==
    /\ call.fn = "main" /\ ~call.done
    /\ \E save \in SaveOutcomes :
          LET orig_size == call.locals.fs.input.size
              r == IF call.args.suffix = ".txt"
                   THEN [fs |-> call.locals.fs, ret |-> FALSE]
                   ELSE OptimizeImage(call.locals.fs, call.args.mode, TRUE, save)
          IN  call' = [call EXCEPT
                         !.done = TRUE, !.ret = Return(None),
                         !.locals.fs = r.fs,
                         !.locals.optimized = IF r.ret THEN @ + 1 ELSE @,
                         !.locals.total_saved =
                             IF r.ret THEN @ + orig_size - r.fs.input.size ELSE @]
    /\ UNCHANGED pf

NextOptimize == OptimizePng \/ OptimizeJpg \/ OptimizeMain

SpecOptimize == InitOptimize /\ [][NextOptimize]_vars

\* C26: whenever optimize_png or optimize_jpg returns False the bytes at
\* the input path are those it held before the call, the default
\* output_path included, and either returns True only when the file at the
\* input path is strictly smaller than before.
C26_UnshrunkFileUntouched ==
    (call.fn \in {"optimize_png", "optimize_jpg"} /\ call.done) =>
        /\ call.ret.value = FALSE =>
              call.locals.fs.input = OriginalFile(call.args.size)
        /\ call.ret.value = TRUE =>
              call.locals.fs.input.size < call.args.size

(***************************************************************************)
(* convert_to_webp_avif.main.  locals.pc is the statement reached,         *)
(* temp_dir the state of the directory tempfile.mkdtemp creates, pending   *)
(* the exit or exception on its way out of the try block.  The external    *)
(* tools succeed, fail with a return code, or the call raises (img2webp    *)
(* is not among the tools check_dependencies looks for).                   *)
(***************************************************************************)
ToolOutcomes == {"ok", "failed", "raises"}

ConvertCalls ==
    {[Pending("main", [has_deps |-> has_deps, has_avifenc |-> has_avifenc,
                       input_exists |-> input_exists, keep_frames |-> keep_frames])
        EXCEPT !.locals = [pc |-> "check", temp_dir |-> "none", frames |-> 0,
                           pending |-> Return(None), outputs |-> {}]] :
        has_deps \in BOOLEAN, has_avifenc \in BOOLEAN, input_exists \in BOOLEAN,
        keep_frames \in BOOLEAN}

InitConvert ==
    /\ call \in ConvertCalls
    /\ pf = PfIdle

\* sys.exit(1)
Exit1 == Raise("SystemExit(1)")

\* check_dependencies and os.path.exists(args.input): sys.exit(1) before
\* any directory exists
CvCheck ==
    /\ call.fn = "main" /\ ~call.done /\ call.locals.pc = "check"
    /\ call' = IF ~call.args.has_deps \/ ~call.args.input_exists
               THEN [call EXCEPT !.done = TRUE, !.ret = Exit1]
               ELSE [call EXCEPT !.locals.pc = "mkdtemp"]
    /\ UNCHANGED pf

\* temp_dir = tempfile.mkdtemp(prefix="frames_")
CvMkdtemp ==
    /\ call.fn = "main" /\ ~call.done /\ call.locals.pc = "mkdtemp"
    /\ call' = [call EXCEPT !.locals.pc = "extract", !.locals.temp_dir = "exists"]
    /\ UNCHANGED pf

\* if not extract_frames(...): sys.exit(1)
CvExtract ==
    /\ call.fn = "main" /\ ~call.done /\ call.locals.pc = "extract"
    /\ \E tool \in ToolOutcomes : \E n \in 0..MaxFrames :
          call' = IF tool = "raises"
                  THEN [call EXCEPT !.locals.pc = "finally",
                                    !.locals.pending = Raise("OSError")]
                  ELSE IF tool = "failed" \/ n = 0
                  THEN [call EXCEPT !.locals.pc = "finally",
                                    !.locals.pending = Exit1]
                  ELSE [call EXCEPT !.locals.pc = "webp", !.locals.frames = n]
    /\ UNCHANGED pf

\* create_animated_webp: a failure is reported and main goes on
CvWebp ==
    /\ call.fn = "main" /\ ~call.done /\ call.locals.pc = "webp"
    /\ \E tool \in ToolOutcomes :
          call' = IF tool = "raises"
                  THEN [call EXCEPT !.locals.pc = "finally",
                                    !.locals.pending = Raise("OSError")]
                  ELSE [call EXCEPT !.locals.pc = "avif",
                                    !.locals.outputs =
                                        IF tool = "ok" THEN @ \cup {"webp"} ELSE @]
    /\ UNCHANGED pf

\* create_animated_avif_ffmpeg, and create_avif_sequence when it fails
CvAvif ==
    /\ call.fn = "main" /\ ~call.done /\ call.locals.pc = "avif"
    /\ \E tool \in ToolOutcomes : \E encoder \in ToolOutcomes :
          call' = IF tool = "raises"
                  THEN [call EXCEPT !.locals.pc = "finally",
                                    !.locals.pending = Raise("OSError")]
                  ELSE IF tool = "ok"
                  THEN [call EXCEPT !.locals.pc = "finally",
                                    !.locals.outputs = @ \cup {"avif"}]
                  ELSE IF encoder = "raises"
                  THEN [call EXCEPT !.locals.pc = "finally",
                                    !.locals.pending = Raise("OSError")]
                  ELSE [call EXCEPT !.locals.pc = "finally",
                                    !.locals.outputs = @ \cup {"avif_frames"}]
    /\ UNCHANGED pf

\* a clean-up that runs only when the try block ran to its end
CvFinallyOnSuccess ==
    /\ call.fn = "main" /\ ~call.done /\ call.locals.pc = "finally"
    /\ call' = [call EXCEPT
                  !.done = TRUE, !.ret = call.locals.pending,
                  !.locals.pc = "exited",
                  !.locals.temp_dir =
                      IF ~call.args.keep_frames /\ call.locals.pending.kind = "return"
                      THEN "removed" ELSE @]
    /\ UNCHANGED pf

\* finally: shutil.rmtree(temp_dir, ignore_errors=True) unless
\* args.keep_frames; then the pending exit or exception goes on
CvFinally ==
    /\ call.fn = "main" /\ ~call.done /\ call.locals.pc = "finally"
    /\ call' = [call EXCEPT
                  !.done = TRUE, !.ret = call.locals.pending,
                  !.locals.pc = "exited",
                  !.locals.temp_dir = IF ~call.args.keep_frames THEN "removed" ELSE @]
    /\ UNCHANGED pf

NextConvert == CvCheck \/ CvMkdtemp \/ CvExtract \/ CvWebp \/ CvAvif \/ CvFinally

SpecConvert == InitConvert /\ [][NextConvert]_vars

\* C27: once the temporary frames directory has been created, main ends
\* with it removed unless --keep-frames is set, whether it exits after a
\* failed extraction, after a failed WebP or AVIF creation, or completes;
\* with --keep-frames the directory is never removed.
C27_TempDirRemoved ==
    call.fn = "main" =>
        /\ (call.done /\ call.locals.temp_dir # "none" /\ ~call.args.keep_frames)
              => call.locals.temp_dir = "removed"
        /\ call.args.keep_frames => call.locals.temp_dir # "removed"
        /\ (~call.done /\ call.locals.pc \notin {"check", "mkdtemp"})
              => call.locals.temp_dir = "exists"

\* main has exited with status 1 after a failed extraction and the
\* directory is gone
C27_Witness ==
    /\ call.fn = "main" /\ call.done
    /\ ~call.args.keep_frames
    /\ call.ret = Exit1
    /\ call.locals.frames = 0
    /\ call.locals.temp_dir = "removed"

(***************************************************************************)
(* When select_color has nothing to return.                                *)
(***************************************************************************)
\* C28: select_color returns None if and only if the timeline is empty;
\* for a non-empty timeline every timestamp yields a segment of the list,
\* and when no interval contains the timestamp that segment is the last.
C28_NoneOnlyWhenEmpty ==
    (call.fn = "select_color" /\ call.done) =>
        LET cs == call.args.configs
            t == call.args.timestamp
        IN  /\ (call.ret = None) <=> (Len(cs) = 0)
            /\ Len(cs) > 0 => \E i \in 1..Len(cs) : call.ret = cs[i]
            /\ (Len(cs) > 0 /\ \A i \in 1..Len(cs) : ~InSegment(cs[i], t))
                  => call.ret = cs[Len(cs)]

\* two different segments of duration 0 and a timestamp before both
\* starts: the second segment is returned
C28_Witness ==
    /\ call.fn = "select_color" /\ call.done
    /\ Len(call.args.configs) = 2
    /\ \A i \in 1..2 : /\ call.args.configs[i].duration = 0
                       /\ call.args.timestamp < call.args.configs[i].start_time
    /\ call.args.configs[1] # call.args.configs[2]
    /\ call.ret = call.args.configs[2]
    /\ call.ret # None

(***************************************************************************)
(* The eyelid mask as progress grows.                                      *)
(***************************************************************************)
\* C29: every value of the mask create_eye_mask returns lies in [0, 1],
\* each pixel's visibility is non-increasing in progress (the mask at any
\* later progress is pointwise <= the mask returned), and the frame the
\* blink multiplies by the mask is pointwise <= the frame it was given.
C29_MaskBoundedAndFalling ==
    (call.fn = "create_eye_mask" /\ call.done) =>
        LET a == call.args
            frame == TestFrame(a.h, a.w, "ramp")
            masked == ApplyMask(frame, call.ret)
        IN  \A y \in 1..a.h : \A x \in 1..a.w :
              /\ 0 <= call.ret[y][x] /\ call.ret[y][x] <= 1000
              /\ \A p2 \in a.pn..a.pd :
                    create_eye_mask(a.h, a.w, p2, a.pd, a.closing)[y][x]
                        <= call.ret[y][x]
              /\ \A c \in 1..3 : masked[y][x][c] <= frame[y][x][c]

\* a half-closed eye: some pixel is partly visible, was more visible at
\* the progress step before, and its sample in the masked frame is darker
\* than in the frame
C29_Witness ==
    /\ call.fn = "create_eye_mask" /\ call.done
    /\ call.args.pn > 0 /\ call.args.pn < call.args.pd
    /\ LET a == call.args
           frame == TestFrame(a.h, a.w, "ramp")
           masked == ApplyMask(frame, call.ret)
           before == create_eye_mask(a.h, a.w, a.pn - 1, a.pd, a.closing)
       IN  \E y \in 1..a.h : \E x \in 1..a.w :
             /\ 0 < call.ret[y][x] /\ call.ret[y][x] < before[y][x]
             /\ \E c \in 1..3 : 0 < masked[y][x][c] /\ masked[y][x][c] < frame[y][x][c]

(***************************************************************************)
(* The targets of the noise points.                                        *)
(***************************************************************************)
\* the targets of the points a call of photonic_noise has drawn
NoiseTargets ==
    LET h == Height(call.args.frame)
        w == Width(call.args.frame)
    IN  [i \in 1..Len(call.locals.pts) |->
            NoiseTarget(h, w, call.args.t, call.locals.pts[i][1], call.locals.pts[i][2])]

\* C30: in photonic_noise every target lies inside the raster: for every
\* drawn x in [0, w), y in [0, h) and offsets within -5..5, negative ones
\* and frames smaller than 5 pixels included, 0 <= px < w and 0 <= py < h,
\* so the bounds guard rejects no point; the result has the raster's shape.
C30_TargetsInsideRaster ==
    (call.fn = "photonic_noise" /\ call.done) =>
        LET h == Height(call.args.frame)
            w == Width(call.args.frame)
        IN  /\ \A i \in 1..Len(call.locals.pts) :
                 /\ 0 <= call.locals.pts[i][1] /\ call.locals.pts[i][1] < w
                 /\ 0 <= call.locals.pts[i][2] /\ call.locals.pts[i][2] < h
                 /\ Abs(NoiseTargets[i].offset_x) <= 5
                 /\ Abs(NoiseTargets[i].offset_y) <= 5
                 /\ 0 <= NoiseTargets[i].px /\ NoiseTargets[i].px < w
                 /\ 0 <= NoiseTargets[i].py /\ NoiseTargets[i].py < h
            /\ call.ret.kind = "return"
            /\ Height(call.ret.value) = h /\ Width(call.ret.value) = w

\* a point at column 0 with a negative horizontal offset larger than the
\* width: the target wraps to a column of the raster and the pixel there
\* is brightened
C30_Witness ==
    /\ call.fn = "photonic_noise" /\ call.done
    /\ Len(call.locals.pts) >= 1
    /\ call.locals.pts[1][1] = 0
    /\ NoiseTargets[1].offset_x < 0 - Width(call.args.frame)
    /\ NoiseTargets[1].px \in 0..(Width(call.args.frame) - 1)
    /\ call.ret.value[NoiseTargets[1].py + 1][NoiseTargets[1].px + 1]
         # call.args.frame[NoiseTargets[1].py + 1][NoiseTargets[1].px + 1]

====
